---------------------------- MODULE Spec2Model ----------------------------
(***************************************************************************)
(* A model of claw-lite's turn orchestration: the session store            *)
(* (src/src/core/sessionStore.ts), the sandboxed tool executor and the     *)
(* turn loop (src/src/core/runTurn.ts), and the WhatsApp bridge of the     *)
(* server (src/unnamed/part_004, "src/server.ts").                         *)
(*                                                                         *)
(* Texts (paths, file contents, session identifiers) are sequences of      *)
(* one-character strings.  JSON values are tagged records.                 *)
(***************************************************************************)
EXTENDS Integers, Sequences, FiniteSets, TLC

VARIABLES
    files,      \* the sessions directory: file path -> [exists, txt]
    appended,   \* history: per file, the events whose appendEvent has returned
    appendedUnder, \* history: per session identifier, the events whose
                \* appendEvent, called with that identifier, has returned
    lastRead,   \* history: per file, what the last readEvents returned, while no
                \* append was made since
    turns,      \* per runTurn invocation: where it is suspended and its locals
    clock,      \* Date.now(), read by every event a turn creates
    toolRounds, \* how many more responses with tool calls the model gives
    faults,     \* how many more failures the environment injects
    overlap,    \* whether runTurn invocations may run concurrently
    world,      \* the filesystem and browser the executor runs against
    tcall,      \* executor harness: the tool call handed to runTool
    tout,       \* executor harness: what runTool did ("none" before the call)
    ptext,      \* parser harness: the text handed to tryParseToolCall
    pcall,      \* parser harness: what tryParseToolCall returned
    ndesc,      \* normalizer harness: the descriptor handed to normalizeToolCall
    ncall,      \* normalizer harness: what normalizeToolCall returned
    located,    \* store path harness: the identifier handed to sessionPath and
                \* the path it returned
    SENT_IDS,   \* bridge: the set of message ids it remembers having sent
    SENT_QUEUE, \* bridge: the same ids, in the order they were remembered
    sentLog,    \* history: the ids SENT_IDS.add was run with, in order
    wa          \* bridge: the messages on the network, the handlers of
                \* messages.upsert in flight, and what they have done

storeVars == <<files, appended, appendedUnder, lastRead>>
turnVars == <<turns, clock, toolRounds, faults, overlap>>
execVars == <<world, tcall, tout>>
parseVars == <<ptext, pcall>>
normVars == <<ndesc, ncall>>
bridgeVars == <<SENT_IDS, SENT_QUEUE, sentLog, wa>>
toolVars == <<world, tcall, tout, ptext, pcall, ndesc, ncall, located, bridgeVars>>
vars == <<files, appended, appendedUnder, lastRead, turns, clock, toolRounds, faults, overlap,
          world, tcall, tout, ptext, pcall, ndesc, ncall, located,
          SENT_IDS, SENT_QUEUE, sentLog, wa>>

---------------------------------------------------------------------------
(* Bounds of the model.                                                    *)

\* Longest relative path (in characters) handed to fs.readText.
MaxPathLen == 4

\* Most events appended in a run of the store on its own.
MaxStoreEvents == 2

\* runTurn invocations in a run.
MaxTurns == 2

\* Responses with tool calls the model gives in a run, over all turns.
MaxToolRounds == 5

\* Failures the environment injects in a run (storage, model backend, crash).
MaxFaults == 1

\* Responses with tool calls in a run whose turns may overlap.
MaxOverlapToolRounds == 1

\* Most properties of an object in a text handed to tryParseToolCall.
MaxMembers == 2

\* Longest tool name (in name tokens) of a descriptor handed to
\* normalizeToolCall.
MaxNameLen == 2

\* Longest conversation identifier (in characters) handed to sessionPath.
MaxIdLen == 3

\* How many ids more than SENT_MAX the bridge is given to remember.
MaxOverflow == 4

\* How many handlers of messages.upsert are in flight at once; an event is
\* delivered when one of them is free.
MaxHandlers == 2

\* How many messages the bridge sends.
MaxSends == 3

\* How many messages other than its own the bridge receives.
MaxReceived == 2

---------------------------------------------------------------------------
(* Text helpers.                                                           *)

RECURSIVE SeqsUpTo(_, _)
\* All sequences over alphabet of length at most n.
SeqsUpTo(alphabet, n) ==
    IF n = 0 THEN {<<>>}
    ELSE LET shorter == SeqsUpTo(alphabet, n - 1)
         IN  shorter \cup {Append(s, c) : s \in shorter, c \in alphabet}

\* String.prototype.startsWith
startsWith(s, prefix) ==
    /\ Len(prefix) <= Len(s)
    /\ SubSeq(s, 1, Len(prefix)) = prefix

\* String.prototype.indexOf(sep, i), for a separator that occurs from i on.
IndexFrom(s, sep, i) ==
    CHOOSE j \in i..Len(s) : s[j] = sep /\ \A k \in i..(j - 1) : s[k] # sep

\* String.prototype.split(sep) for a one-character separator: the pieces
\* between separators, empty pieces included.
SplitOn(s, sep) ==
    LET PiecesFrom[i \in 1..(Len(s) + 1)] ==
            IF \A j \in i..Len(s) : s[j] # sep
            THEN <<SubSeq(s, i, Len(s))>>
            ELSE <<SubSeq(s, i, IndexFrom(s, sep, i) - 1)>>
                     \o PiecesFrom[IndexFrom(s, sep, i) + 1]
    IN  PiecesFrom[1]

RECURSIVE JoinWith(_, _)
\* Array.prototype.join(sep)
JoinWith(parts, sep) ==
    IF Len(parts) = 0 THEN <<>>
    ELSE IF Len(parts) = 1 THEN parts[1]
    ELSE parts[1] \o <<sep>> \o JoinWith(Tail(parts), sep)

---------------------------------------------------------------------------
(* JSON values: what the model backend can put in a descriptor.            *)

JUndefined == [t |-> "undefined"]
JNull == [t |-> "null"]
JStr(s) == [t |-> "string", s |-> s]
JNum(n) == [t |-> "number", nan |-> FALSE, n |-> n]
JNaN == [t |-> "number", nan |-> TRUE, n |-> 0]
JArr == [t |-> "array"]
JObj(f) == [t |-> "object", f |-> f]

\* obj.key on a plain object: undefined when the key is absent.
Prop(obj, key) == IF key \in DOMAIN obj.f THEN obj.f[key] ELSE JUndefined

isPlainObject(x) == x.t = "object"

---------------------------------------------------------------------------
(* node:path on POSIX.                                                     *)

SEP == "/"

\* path.isAbsolute
isAbsolute(p) == Len(p) > 0 /\ p[1] = SEP

RECURSIVE NormalizeSegments(_, _)
\* The segment walk of path.resolve on an absolute path: empty and "."
\* segments are dropped, ".." removes the last kept segment (none at "/").
NormalizeSegments(segs, kept) ==
    IF Len(segs) = 0 THEN kept
    ELSE LET s == Head(segs)
             k == IF s = <<>> \/ s = <<".">> THEN kept
                  ELSE IF s = <<".", ".">>
                       THEN (IF Len(kept) = 0 THEN kept
                             ELSE SubSeq(kept, 1, Len(kept) - 1))
                       ELSE Append(kept, s)
         IN  NormalizeSegments(Tail(segs), k)

\* The segments of the absolute path that path.resolve(base, rel) denotes,
\* for an absolute base and a relative rel.
ResolvedSegments(base, rel) ==
    NormalizeSegments(SplitOn(base \o <<SEP>> \o rel, SEP), <<>>)

\* path.resolve(base, rel) as a text: "/" followed by the segments joined by "/".
resolve(base, rel) == <<SEP>> \o JoinWith(ResolvedSegments(base, rel), SEP)

\* const workspaceDir = path.join(process.cwd(), 'workspaces', agentId):
\* c is the working directory, w the workspaces directory, a the agent's.
WorkspaceDir == <<"/", "c", "/", "w", "/", "a">>

---------------------------------------------------------------------------
(* The workspace sandbox.                                                  *)

Thrown(msg) == [thrown |-> TRUE, msg |-> msg, value |-> <<>>]
Returned(v) == [thrown |-> FALSE, msg |-> "", value |-> v]

\* The mutant of resolveWorkspacePath that compares with the root itself
\* instead of the root followed by the separator.
resolveWorkspacePathNoSep(workspaceDir, rel) ==
    IF rel.t # "string" \/ Len(rel.s) = 0
    THEN Thrown("args.path must be a non-empty string")
    ELSE IF isAbsolute(rel.s) THEN Thrown("Absolute paths are not allowed")
    ELSE LET resolved == resolve(workspaceDir, rel.s)
             base == resolve(workspaceDir, <<>>)
         IN  IF ~startsWith(resolved, base) THEN Thrown("Path escapes workspace")
             ELSE Returned(resolved)

resolveWorkspacePath(workspaceDir, rel) ==
    IF rel.t # "string" \/ Len(rel.s) = 0
    THEN Thrown("args.path must be a non-empty string")
    ELSE IF isAbsolute(rel.s) THEN Thrown("Absolute paths are not allowed")
    ELSE LET resolved == resolve(workspaceDir, rel.s)
             base == resolve(workspaceDir, <<>>) \o <<SEP>>
         IN  IF ~startsWith(resolved, base) THEN Thrown("Path escapes workspace")
             ELSE Returned(resolved)

---------------------------------------------------------------------------
(* The session store (sessionStore.ts).                                    *)
(*                                                                         *)
(* A file text is a sequence of tokens: [c |-> ch] is the character ch,    *)
(* [meta |-> m] stands for the serialized fields of an event other than    *)
(* its content, [json |-> v] for the JSON text of the value v inside a     *)
(* content (JSON.stringify escapes its quotes and control characters, and  *)
(* JSON.parse restores them).                                              *)

LF == "LF"          \* the line feed character
QUOTE == "QUOTE"    \* the double quote
BSL == "BSL"        \* the backslash
SPACE == "SPACE"    \* the space

Ch(c) == [c |-> c]
IsCh(tok, c) == DOMAIN tok = {"c"} /\ tok.c = c
TextOf(chars) == [i \in 1..Len(chars) |-> Ch(chars[i])]

\* The characters safeSessionId keeps: [a-zA-Z0-9._@-]
SafeIdChars == {"a", "b", "m", "x", ".", "_", "@", "-"}

\* The mutant of safeSessionId that replaces nothing.
safeSessionIdKeepsAll(sessionId) == sessionId

\* sessionId.replace(/[^a-zA-Z0-9._@-]/g, '_')
safeSessionId(sessionId) ==
    [i \in 1..Len(sessionId) |->
        IF sessionId[i] \in SafeIdChars THEN sessionId[i] ELSE "_"]

\* const ROOT = path.join(process.cwd(), 'state', 'sessions')
ROOT == <<"/", "c", "/", "state", "/", "sessions">>

\* path.join(ROOT, `${safeSessionId(sessionId)}.jsonl`)
sessionPath(sessionId) == resolve(ROOT, safeSessionId(sessionId) \o <<".jsonl">>)

\* The conversation identifiers of the model: two that differ only in a
\* character safeSessionId replaces, and one apart.
SessionIds == {<<"m">>, <<"a", "/", "b">>, <<"a", "_", "b">>}
\* sessionPath tabulated over the identifiers of the model.
SessionFile == [id \in SessionIds |-> sessionPath(id)]
FilePaths == {SessionFile[id] : id \in SessionIds}

NoFiles == [p \in FilePaths |-> [exists |-> FALSE, txt |-> <<>>]]

RECURSIVE EscapeTextRawLF(_)
\* The mutant of EscapeText that writes a line feed as it is.
EscapeTextRawLF(text) ==
    IF Len(text) = 0 THEN <<>>
    ELSE LET tok == Head(text)
             out == IF IsCh(tok, QUOTE) THEN <<Ch(BSL), Ch(QUOTE)>>
                    ELSE IF IsCh(tok, BSL) THEN <<Ch(BSL), Ch(BSL)>>
                    ELSE <<tok>>
         IN  out \o EscapeTextRawLF(Tail(text))

RECURSIVE EscapeText(_)
\* The string escaping of JSON.stringify: the quote, the backslash and the
\* line feed are written as a backslash and a character.
EscapeText(text) ==
    IF Len(text) = 0 THEN <<>>
    ELSE LET tok == Head(text)
             out == IF IsCh(tok, QUOTE) THEN <<Ch(BSL), Ch(QUOTE)>>
                    ELSE IF IsCh(tok, BSL) THEN <<Ch(BSL), Ch(BSL)>>
                    ELSE IF IsCh(tok, LF) THEN <<Ch(BSL), Ch("n")>>
                    ELSE <<tok>>
         IN  out \o EscapeText(Tail(text))

\* The fields of an event that are not free text.
MetaOf(ev) == [id |-> ev.id, ts |-> ev.ts, role |-> ev.role, type |-> ev.type,
               tool |-> ev.tool, toolResult |-> ev.toolResult]

\* JSON.stringify(ev): one object, the content a JSON string.
JSONstringify(ev) ==
    <<Ch("{"), [meta |-> MetaOf(ev)], Ch(QUOTE)>>
        \o EscapeText(ev.content) \o <<Ch(QUOTE), Ch("}")>>

RECURSIVE UnescapeFrom(_, _)
\* The inverse of the escaping, as JSON.parse reads a string body, with the
\* text read so far: fails on a raw quote, a raw line feed, or a backslash
\* followed by anything else than a quote, a backslash or n.
UnescapeFrom(body, sofar) ==
    IF Len(body) = 0 THEN Returned(sofar)
    ELSE IF IsCh(body[1], QUOTE) \/ IsCh(body[1], LF) THEN Thrown("SyntaxError")
    ELSE IF ~IsCh(body[1], BSL)
    THEN UnescapeFrom(Tail(body), Append(sofar, body[1]))
    ELSE IF Len(body) < 2 THEN Thrown("SyntaxError")
    ELSE IF IsCh(body[2], QUOTE)
    THEN UnescapeFrom(SubSeq(body, 3, Len(body)), Append(sofar, Ch(QUOTE)))
    ELSE IF IsCh(body[2], BSL)
    THEN UnescapeFrom(SubSeq(body, 3, Len(body)), Append(sofar, Ch(BSL)))
    ELSE IF IsCh(body[2], "n")
    THEN UnescapeFrom(SubSeq(body, 3, Len(body)), Append(sofar, Ch(LF)))
    ELSE Thrown("SyntaxError")

UnescapeText(body) == UnescapeFrom(body, <<>>)

\* JSON.parse(line) as SessionEvent
JSONparse(line) ==
    IF \/ Len(line) < 5
       \/ ~IsCh(line[1], "{")
       \/ DOMAIN line[2] # {"meta"}
       \/ ~IsCh(line[3], QUOTE)
       \/ ~IsCh(line[Len(line) - 1], QUOTE)
       \/ ~IsCh(line[Len(line)], "}")
    THEN Thrown("SyntaxError")
    ELSE LET m == line[2].meta
             content == UnescapeText(SubSeq(line, 4, Len(line) - 2))
         IN  IF content.thrown THEN Thrown("SyntaxError")
             ELSE Returned([id |-> m.id, ts |-> m.ts, role |-> m.role,
                            content |-> content.value,
                            type |-> m.type, tool |-> m.tool,
                            toolResult |-> m.toolResult])

IsWhitespace(tok) == IsCh(tok, SPACE) \/ IsCh(tok, LF)

RECURSIVE trim(_)
\* String.prototype.trim
trim(text) ==
    IF Len(text) = 0 THEN text
    ELSE IF IsWhitespace(text[1]) THEN trim(Tail(text))
    ELSE IF IsWhitespace(text[Len(text)]) THEN trim(SubSeq(text, 1, Len(text) - 1))
    ELSE text

NonEmpty(text) == Len(text) > 0

\* .map((l) => l.trim()).filter(Boolean).map((l) => JSON.parse(l)): the
\* events of the lines, or the SyntaxError of the first line JSON.parse
\* rejects.
ParseLines(lines) ==
    LET kept == SelectSeq([i \in 1..Len(lines) |-> trim(lines[i])], NonEmpty)
        parsed == [i \in 1..Len(kept) |-> JSONparse(kept[i])]
    IN  IF \E i \in 1..Len(kept) : parsed[i].thrown
        THEN Thrown("SyntaxError")
        ELSE Returned([i \in 1..Len(kept) |-> parsed[i].value])

\* readEvents(sessionId) on the files fs: the events, or the error thrown.
\* A missing file (ENOENT) is the empty sequence.
readEvents(fs, sessionId) ==
    LET p == SessionFile[sessionId]
    IN  IF ~fs[p].exists THEN Returned(<<>>)
        ELSE ParseLines(SplitOn(fs[p].txt, Ch(LF)))

\* The mutant of appendEvent that writes the file anew (writeFile for
\* appendFile).
appendEventOverwrites(fs, sessionId, ev) ==
    LET p == SessionFile[sessionId]
    IN  [fs EXCEPT ![p] = [exists |-> TRUE, txt |-> JSONstringify(ev) \o <<Ch(LF)>>]]

\* appendEvent(sessionId, ev): the files after appendFile has written the line.
appendEvent(fs, sessionId, ev) ==
    LET p == SessionFile[sessionId]
    IN  [fs EXCEPT ![p] = [exists |-> TRUE,
                           txt |-> fs[p].txt \o JSONstringify(ev) \o <<Ch(LF)>>]]

NotRead == [valid |-> FALSE, events |-> <<>>]

---------------------------------------------------------------------------
(* JSON.parse of a text.  The characters of a text are tokens: a            *)
(* punctuation mark, the quote, a whitespace character, the literal null,  *)
(* true or false, a numeral, or a run of other characters.                 *)

JBool(b) == [t |-> "boolean", b |-> b]

\* What a parsing step yields: the value read and the position after it.
Parsed(value, next) == [ok |-> TRUE, value |-> value, next |-> next]
NotParsed == [ok |-> FALSE, value |-> JUndefined, next |-> 0]

\* The position of the first character at or after i that is not whitespace
\* (Len(text) + 1 when there is none).
SkipWs(text, i) ==
    IF \A j \in i..Len(text) : IsWhitespace(text[j]) THEN Len(text) + 1
    ELSE CHOOSE j \in i..Len(text) :
             ~IsWhitespace(text[j]) /\ \A k \in i..(j - 1) : IsWhitespace(text[k])

RECURSIVE ClosingQuote(_, _)
\* The position of the quote that ends the string literal whose body starts
\* at k (0 when the literal is not terminated): a backslash takes the next
\* character with it.
ClosingQuote(text, k) ==
    IF k > Len(text) THEN 0
    ELSE IF IsCh(text[k], QUOTE) THEN k
    ELSE IF IsCh(text[k], BSL) THEN ClosingQuote(text, k + 2)
    ELSE ClosingQuote(text, k + 1)

RECURSIVE Concat(_)
\* The characters of a string as one string (a property key).
Concat(s) == IF Len(s) = 0 THEN "" ELSE Head(s) \o Concat(Tail(s))

\* A string literal whose opening quote is at i.
ParseStringAt(text, i) ==
    LET j == ClosingQuote(text, i + 1)
    IN  IF j = 0 \/ j > Len(text) THEN NotParsed
        ELSE LET body == UnescapeText(SubSeq(text, i + 1, j - 1))
             IN  IF body.thrown
                    \/ \E m \in 1..Len(body.value) : DOMAIN body.value[m] # {"c"}
                 THEN NotParsed
                 ELSE Parsed(JStr([m \in 1..Len(body.value) |-> body.value[m].c]),
                             j + 1)

\* The numerals of the model.
NumeralOf(tok) ==
    IF IsCh(tok, "0") THEN JNum(0) ELSE IF IsCh(tok, "1") THEN JNum(1) ELSE JNaN

RECURSIVE ParseValueAt(_, _)
RECURSIVE ParseMembersAt(_, _, _)
RECURSIVE ParseElementsAt(_, _)

\* The members of an object from position i0 on, f holding the properties
\* read so far: a later property of the same key replaces an earlier one.
ParseMembersAt(text, i0, f) ==
    LET i == SkipWs(text, i0)
    IN  IF i > Len(text) \/ ~IsCh(text[i], QUOTE) THEN NotParsed
        ELSE LET key == ParseStringAt(text, i)
             IN  IF ~key.ok THEN NotParsed
                 ELSE LET c == SkipWs(text, key.next)
                      IN  IF c > Len(text) \/ ~IsCh(text[c], ":") THEN NotParsed
                          ELSE LET v == ParseValueAt(text, c + 1)
                               IN  IF ~v.ok THEN NotParsed
                                   ELSE LET d == SkipWs(text, v.next)
                                            k == Concat(key.value.s)
                                            g == [x \in DOMAIN f \cup {k} |->
                                                     IF x = k THEN v.value ELSE f[x]]
                                        IN  IF d > Len(text) THEN NotParsed
                                            ELSE IF IsCh(text[d], ",")
                                            THEN ParseMembersAt(text, d + 1, g)
                                            ELSE IF IsCh(text[d], "}")
                                            THEN Parsed(JObj(g), d + 1)
                                            ELSE NotParsed

\* The elements of an array from position i0 on.
ParseElementsAt(text, i0) ==
    LET v == ParseValueAt(text, i0)
    IN  IF ~v.ok THEN NotParsed
        ELSE LET d == SkipWs(text, v.next)
             IN  IF d > Len(text) THEN NotParsed
                 ELSE IF IsCh(text[d], ",") THEN ParseElementsAt(text, d + 1)
                 ELSE IF IsCh(text[d], "]") THEN Parsed(JArr, d + 1)
                 ELSE NotParsed

\* The JSON value that starts at or after position i0.
ParseValueAt(text, i0) ==
    LET i == SkipWs(text, i0)
    IN  IF i > Len(text) THEN NotParsed
        ELSE IF IsCh(text[i], "null") THEN Parsed(JNull, i + 1)
        ELSE IF IsCh(text[i], "true") THEN Parsed(JBool(TRUE), i + 1)
        ELSE IF IsCh(text[i], "false") THEN Parsed(JBool(FALSE), i + 1)
        ELSE IF ~NumeralOf(text[i]).nan THEN Parsed(NumeralOf(text[i]), i + 1)
        ELSE IF IsCh(text[i], QUOTE) THEN ParseStringAt(text, i)
        ELSE IF IsCh(text[i], "[")
        THEN LET j == SkipWs(text, i + 1)
             IN  IF j <= Len(text) /\ IsCh(text[j], "]") THEN Parsed(JArr, j + 1)
                 ELSE ParseElementsAt(text, i + 1)
        ELSE IF IsCh(text[i], "{")
        THEN LET j == SkipWs(text, i + 1)
             IN  IF j <= Len(text) /\ IsCh(text[j], "}") THEN Parsed(JObj(<<>>), j + 1)
                 ELSE ParseMembersAt(text, i + 1, <<>>)
        ELSE NotParsed

\* JSON.parse(text): the value, or a SyntaxError when the text is not one
\* JSON value with whitespace around it.
JSONparseText(text) ==
    LET v == ParseValueAt(text, 1)
    IN  IF v.ok /\ SkipWs(text, v.next) > Len(text) THEN Returned(v.value)
        ELSE Thrown("SyntaxError")

RECURSIVE ValueText(_)
RECURSIVE FieldsText(_, _)

\* The properties keys of the object f, as JSON text.
FieldsText(f, keys) ==
    IF keys = {} THEN <<>>
    ELSE LET k == CHOOSE x \in keys : TRUE
         IN  <<Ch(QUOTE), Ch(k), Ch(QUOTE), Ch(":")>> \o ValueText(f[k])
                 \o (IF keys = {k} THEN <<>>
                     ELSE <<Ch(",")>> \o FieldsText(f, keys \ {k}))

\* A value as JSON text.
ValueText(v) ==
    CASE v.t = "null" -> <<Ch("null")>>
      [] v.t = "boolean" -> <<Ch(IF v.b THEN "true" ELSE "false")>>
      [] v.t = "number" -> <<Ch(IF v.n = 0 THEN "0" ELSE "1")>>
      [] v.t = "string" -> <<Ch(QUOTE)>> \o EscapeText(TextOf(v.s)) \o <<Ch(QUOTE)>>
      [] v.t = "array" -> <<Ch("["), Ch("]")>>
      [] v.t = "object" -> <<Ch("{")>> \o FieldsText(v.f, DOMAIN v.f) \o <<Ch("}")>>

RECURSIVE MembersText(_, _)
\* The properties members, in their order, as JSON text with the whitespace
\* ws after each colon.
MembersText(members, ws) ==
    IF Len(members) = 0 THEN <<>>
    ELSE <<Ch(QUOTE), Ch(Head(members).key), Ch(QUOTE), Ch(":")>> \o ws
             \o ValueText(Head(members).value)
             \o (IF Len(members) = 1 THEN <<>>
                 ELSE <<Ch(",")>> \o MembersText(Tail(members), ws))

\* The text of an object with the properties members.
ObjectText(members, ws) == <<Ch("{")>> \o MembersText(members, ws) \o <<Ch("}")>>

---------------------------------------------------------------------------
(* The filesystem the executor reads (node:fs/promises readFile).          *)
(* env.link: the workspace entry l is a symbolic link to the directory /c, *)
(* which lies outside the workspace.  env.inside: the workspace holds the  *)
(* regular file a.  The file /c/a exists outside the workspace.            *)

WorkspaceSegments == <<<<"c">>, <<"w">>, <<"a">>>>
LinkSegments == WorkspaceSegments \o <<<<"l">>>>
LinkTargetSegments == <<<<"c">>>>
InsideFileSegments == WorkspaceSegments \o <<<<"a">>>>
OutsideFileSegments == <<<<"c">>, <<"a">>>>
Directories == {<<>>, <<<<"c">>>>, <<<<"c">>, <<"w">>>>, WorkspaceSegments}

Envs == [link : BOOLEAN, inside : BOOLEAN, search : {"ok", "fail"}]

\* Whether segs lies strictly below root.
IsStrictDescendant(segs, root) ==
    /\ Len(segs) > Len(root)
    /\ SubSeq(segs, 1, Len(root)) = root

\* The location the operating system opens for a path: a symbolic link on
\* the way is followed.
RealSegments(env, segs) ==
    IF env.link /\ Len(segs) >= Len(LinkSegments)
                /\ SubSeq(segs, 1, Len(LinkSegments)) = LinkSegments
    THEN LinkTargetSegments \o SubSeq(segs, Len(LinkSegments) + 1, Len(segs))
    ELSE segs

\* readFile(fullPath, 'utf8'): the text of the file, or a rejection.
readFileFs(env, fullPath) ==
    LET real == RealSegments(env, ResolvedSegments(<<>>, fullPath))
    IN  IF real = InsideFileSegments /\ env.inside THEN Returned(<<"i", "n">>)
        ELSE IF real = OutsideFileSegments THEN Returned(<<"s", "e", "c", "r", "e", "t">>)
        ELSE IF real \in Directories
             THEN Thrown("EISDIR: illegal operation on a directory, read")
             ELSE Thrown("ENOENT: no such file or directory")

---------------------------------------------------------------------------
(* Numbers of the search arguments.                                        *)

\* Number(x) for the values of the model.
ToNumber(x) ==
    CASE x.t = "number" -> x
      [] x.t = "null" -> JNum(0)
      [] x.t = "string" -> IF Len(x.s) = 0 THEN JNum(0) ELSE JNaN
      [] x.t = "array" -> JNum(0)
      [] OTHER -> JNaN

\* x ?? d
Nullish(x, d) == IF x.t \in {"undefined", "null"} THEN d ELSE x

\* Math.max and Math.min: NaN when either operand is NaN.
MathMax(a, b) == IF a.nan \/ b.nan THEN JNaN ELSE IF a.n >= b.n THEN a ELSE b
MathMin(a, b) == IF a.nan \/ b.nan THEN JNaN ELSE IF a.n <= b.n THEN a ELSE b

\* performBrowserSearch: the browser either yields result records or fails
\* (connection, navigation, timeout, blocked page).
performBrowserSearch(env, opts) ==
    IF env.search = "ok"
    THEN Returned([query |-> opts.query, engine |-> opts.engine, results |-> "records"])
    ELSE Thrown("Timeout exceeded")

---------------------------------------------------------------------------
(* The executor.                                                           *)

\* Tool names are sequences of tokens; an allow-listed name is one token.
FsReadText == <<"fs.readText">>
BrowserSearch == <<"browserSearch">>
\* The mutant of ALLOWED_TOOLS that lets a third tool name through.
ALLOWED_TOOLS_WithWrite == {FsReadText, BrowserSearch, <<"fs.writeText">>}

\* const ALLOWED_TOOLS = new Set(['fs.readText', 'browserSearch'])
ALLOWED_TOOLS == {FsReadText, BrowserSearch}

ToolFail(error) == [ok |-> FALSE, error |-> error, result |-> JUndefined]
ToolOk(result) == [ok |-> TRUE, error |-> "", result |-> result]

\* What one runTool call did: it returned value or threw msg, after having
\* called readFile with the paths of reads and the search with searches.
Outcome(call, reads, searches) ==
    [thrown |-> call.thrown, msg |-> call.msg, value |-> call.value,
     reads |-> reads, searches |-> searches]

runTool(toolCall, workspaceDir, env) ==
    IF toolCall.tool \notin ALLOWED_TOOLS
    THEN Outcome(Returned(ToolFail("Tool not allowed")), <<>>, <<>>)
    ELSE IF toolCall.tool = FsReadText
    THEN IF ~isPlainObject(toolCall.args)
         THEN Outcome(Returned(ToolFail("args must be an object")), <<>>, <<>>)
         ELSE LET relPath == Prop(toolCall.args, "path")
              IN  IF relPath.t # "string"
                  THEN Outcome(Returned(ToolFail("args.path must be a string")), <<>>, <<>>)
                  ELSE LET fullPath == resolveWorkspacePath(workspaceDir, relPath)
                       IN  IF fullPath.thrown
                           THEN Outcome(Thrown(fullPath.msg), <<>>, <<>>)
                           ELSE LET text == readFileFs(env, fullPath.value)
                                IN  IF text.thrown
                                    THEN Outcome(Thrown(text.msg), <<fullPath.value>>, <<>>)
                                    ELSE Outcome(
                                           Returned(ToolOk([path |-> relPath.s,
                                                            text |-> text.value])),
                                           <<fullPath.value>>, <<>>)
    ELSE IF toolCall.tool = BrowserSearch
    THEN IF ~isPlainObject(toolCall.args)
         THEN Outcome(Returned(ToolFail("args must be an object")), <<>>, <<>>)
         ELSE LET args == toolCall.args
                  query == Prop(args, "query")
              IN  IF query.t # "string" \/ Len(query.s) = 0
                  THEN Outcome(Returned(ToolFail("args.query must be a non-empty string")),
                               <<>>, <<>>)
                  ELSE LET numResults ==
                               MathMin(MathMax(ToNumber(Nullish(Prop(args, "numResults"),
                                                                JNum(5))),
                                               JNum(1)), JNum(10))
                           timeoutMs ==
                               MathMin(MathMax(ToNumber(Nullish(Prop(args, "timeoutMs"),
                                                                JNum(30000))),
                                               JNum(1000)), JNum(60000))
                           engine == IF Prop(args, "engine") = JStr(<<"google">>)
                                     THEN "google" ELSE "duckduckgo"
                           opts == [query |-> query.s, numResults |-> numResults,
                                    timeoutMs |-> timeoutMs, engine |-> engine]
                           result == performBrowserSearch(env, opts)
                       IN  IF result.thrown
                           THEN Outcome(Returned(ToolFail("Search failed")), <<>>, <<opts>>)
                           ELSE Outcome(Returned(ToolOk(result.value)), <<>>, <<opts>>)
    ELSE Outcome(Returned(ToolFail("Tool not implemented")), <<>>, <<>>)

\* The call site in runTurn: try { toolResult = await runTool(...) }
\* catch (err) { toolResult = { ok: false, error: err.message } }
ToolResultOf(outcome) ==
    IF outcome.thrown THEN ToolFail(outcome.msg) ELSE outcome.value

---------------------------------------------------------------------------
(* The turn loop (runTurn.ts): data.                                       *)

maxToolSteps == 5

NoTool == [present |-> FALSE, name |-> <<>>, args |-> JUndefined]
NoToolResult == [present |-> FALSE, ok |-> FALSE, error |-> "", result |-> JUndefined]

\* uid(): `${Date.now()}-${Math.random()...}`
Uid(now) == [uid |-> now]

\* A SessionEvent created at time now.
Event(now, role, content, type, tool, toolResult) ==
    [id |-> Uid(now), ts |-> now, role |-> role, content |-> content,
     type |-> type, tool |-> tool, toolResult |-> toolResult]

NoEvent == Event(0, "none", <<>>, "none", NoTool, NoToolResult)

\* `Tool step limit reached (${maxToolSteps}).`
LimitText == TextOf(<<"Tool step limit reached (5).">>)

\* The characters sanitizeToolName keeps, [a-zA-Z0-9._-], as name tokens: a
\* token is a run of such characters, or one character outside the class,
\* or the junk prefix.
JunkPrefix == "assistant<|channel|>"
NameTokens == {"fs.readText", "browserSearch", "call", "bogus", "unknown"}

RECURSIVE Without(_, _)
\* The tokens of name that are not in drop.
Without(name, drop) ==
    IF Len(name) = 0 THEN <<>>
    ELSE (IF Head(name) \in drop THEN <<>> ELSE <<Head(name)>>)
             \o Without(Tail(name), drop)

RECURSIVE trimName(_)
\* String.prototype.trim on a name.
trimName(name) ==
    IF Len(name) = 0 THEN name
    ELSE IF name[1] = " " THEN trimName(Tail(name))
    ELSE IF name[Len(name)] = " " THEN trimName(SubSeq(name, 1, Len(name) - 1))
    ELSE name

RECURSIVE OnlyNameTokens(_)
\* stripped.replace(/[^a-zA-Z0-9._-]/g, '')
OnlyNameTokens(name) ==
    IF Len(name) = 0 THEN <<>>
    ELSE (IF Head(name) \in NameTokens THEN <<Head(name)>> ELSE <<>>)
             \o OnlyNameTokens(Tail(name))

\* The mutant of sanitizeToolName that keeps the first name token only.
sanitizeToolNameFirstToken(name) ==
    IF name.t # "string" THEN <<>>
    ELSE LET kept == OnlyNameTokens(trimName(Without(name.s, {JunkPrefix})))
         IN  IF Len(kept) = 0 THEN kept ELSE <<Head(kept)>>

sanitizeToolName(name) ==
    IF name.t # "string" THEN <<>>
    ELSE OnlyNameTokens(trimName(Without(name.s, {JunkPrefix})))

\* An OllamaToolCall: id and function are JSON values.
Descriptor(id, name, arguments) ==
    [id |-> id, function |-> JObj([name |-> name, arguments |-> arguments])]

\* tc?.function?.arguments and tc?.function?.name
FunctionField(tc, key) ==
    IF isPlainObject(tc.function) THEN Prop(tc.function, key) ELSE JUndefined

\* The mutant of normalizeToolCall that prefers the outer function name.
normalizeToolCallOuterFirst(tc, now) ==
    LET id == IF tc.id.t = "string" /\ Len(tc.id.s) > 0
              THEN [given |-> TRUE, s |-> tc.id.s, uid |-> 0]
              ELSE [given |-> FALSE, s |-> <<>>, uid |-> now]
        fnArgs == FunctionField(tc, "arguments")
        tool == sanitizeToolName(FunctionField(tc, "name"))
    IN  IF Len(tool) > 0 THEN [id |-> id, tool |-> tool, args |-> fnArgs]
        ELSE IF isPlainObject(fnArgs) /\ Prop(fnArgs, "tool").t = "string"
        THEN [id |-> id, tool |-> sanitizeToolName(Prop(fnArgs, "tool")),
              args |-> Prop(fnArgs, "args")]
        ELSE [id |-> id, tool |-> <<"unknown">>, args |-> fnArgs]

normalizeToolCall(tc, now) ==
    LET id == IF tc.id.t = "string" /\ Len(tc.id.s) > 0
              THEN [given |-> TRUE, s |-> tc.id.s, uid |-> 0]
              ELSE [given |-> FALSE, s |-> <<>>, uid |-> now]
        fnArgs == FunctionField(tc, "arguments")
    IN  IF isPlainObject(fnArgs) /\ Prop(fnArgs, "tool").t = "string"
        THEN [id |-> id, tool |-> sanitizeToolName(Prop(fnArgs, "tool")),
              args |-> Prop(fnArgs, "args")]
        ELSE LET tool == sanitizeToolName(FunctionField(tc, "name"))
             IN  IF Len(tool) > 0 THEN [id |-> id, tool |-> tool, args |-> fnArgs]
                 ELSE [id |-> id, tool |-> <<"unknown">>, args |-> fnArgs]

\* tryParseToolCall's null.
NoToolCall == [found |-> FALSE, tool |-> <<>>, args |-> JUndefined]

\* The mutant of tryParseToolCall that does not ask for an args property.
tryParseToolCallArgsOptional(assistantText) ==
    LET txt == trim(assistantText)
    IN  IF Len(txt) = 0 \/ ~IsCh(txt[1], "{") \/ ~IsCh(txt[Len(txt)], "}")
        THEN NoToolCall
        ELSE LET obj == JSONparseText(txt)
             IN  IF obj.thrown THEN NoToolCall
                 ELSE IF obj.value.t # "object" THEN NoToolCall
                 ELSE IF Prop(obj.value, "tool").t # "string"
                         \/ Len(Prop(obj.value, "tool").s) = 0 THEN NoToolCall
                 ELSE [found |-> TRUE, tool |-> Prop(obj.value, "tool").s,
                       args |-> Prop(obj.value, "args")]

\* tryParseToolCall(assistantText): the tool call the text is, or null.
tryParseToolCall(assistantText) ==
    LET txt == trim(assistantText)
    IN  IF Len(txt) = 0 \/ ~IsCh(txt[1], "{") \/ ~IsCh(txt[Len(txt)], "}")
        THEN NoToolCall
        ELSE LET obj == JSONparseText(txt)
             IN  IF obj.thrown THEN NoToolCall
                 ELSE IF obj.value.t \in {"null", "undefined"}
                         \/ obj.value.t # "object" THEN NoToolCall
                 ELSE IF Prop(obj.value, "tool").t # "string"
                         \/ Len(Prop(obj.value, "tool").s) = 0 THEN NoToolCall
                 ELSE IF "args" \notin DOMAIN obj.value.f THEN NoToolCall
                 ELSE [found |-> TRUE, tool |-> Prop(obj.value, "tool").s,
                       args |-> Prop(obj.value, "args")]

NoNorm == [id |-> [given |-> FALSE, s |-> <<>>, uid |-> 0], tool |-> <<>>,
           args |-> JUndefined]

\* An OllamaMessage.
Message(role, content) == [role |-> role, name |-> <<>>, content |-> content]
ToolMessage(norm, toolResult) ==
    [role |-> "tool", name |-> norm.tool, tool_call_id |-> norm.id,
     content |-> <<[json |-> toolResult]>>]

\* loadWorkspaceMessages(agentId): the persona and the tool manifest.
loadWorkspaceMessages ==
    <<Message("system", TextOf(<<"SOUL.md">>)), Message("system", TextOf(<<"TOOLS.md">>))>>

\* The mutant of historyMsgs without the filter: every event of the history
\* is rendered, tool events included.
historyMsgsUnfiltered(events) ==
    [i \in 1..Len(events) |-> [role |-> events[i].role, name |-> <<>>,
                               content |-> events[i].content]]

RECURSIVE historyMsgs(_)
\* events.filter((e) => e.type === 'message' && (e.role === 'user' ||
\*   e.role === 'assistant' || e.role === 'system')).map(...)
historyMsgs(events) ==
    IF Len(events) = 0 THEN <<>>
    ELSE (IF Head(events).type = "message"
             /\ Head(events).role \in {"user", "assistant", "system"}
          THEN <<Message(Head(events).role, Head(events).content)>>
          ELSE <<>>) \o historyMsgs(Tail(events))

\* for (let step = 0; step < maxToolSteps; step++): the mutant of the loop
\* condition that is off by one.
LoopContinuesOffByOne(step) == step <= maxToolSteps

LoopContinues(step) == step < maxToolSteps

\* The events runTurn creates.
userEv(now, userText) == Event(now, "user", userText, "message", NoTool, NoToolResult)
\* The mutant of assistantEv that logs the answer under the kind toolCall.
assistantEvAsToolCall(now, content) ==
    Event(now, "assistant", content, "toolCall", NoTool, NoToolResult)

assistantEv(now, content) ==
    Event(now, "assistant", content, "message", NoTool, NoToolResult)
\* The mutant of assistantToolCallEv that discards the text of the response.
assistantToolCallEvWithoutText(now, content) ==
    Event(now, "assistant", <<>>, "toolCall", NoTool, NoToolResult)

assistantToolCallEv(now, content) ==
    Event(now, "assistant", content, "toolCall", NoTool, NoToolResult)
toolCallEv(now, norm) ==
    Event(now, "assistant", <<[json |-> [tool |-> norm.tool, args |-> norm.args]]>>,
          "toolCall", [present |-> TRUE, name |-> norm.tool, args |-> norm.args],
          NoToolResult)
toolResultEv(now, norm, toolResult) ==
    Event(now, "system", <<[json |-> [tool |-> norm.tool, toolResult |-> toolResult]]>>,
          "toolResult", NoTool,
          [present |-> TRUE, ok |-> toolResult.ok, error |-> toolResult.error,
           result |-> toolResult.result])

TurnIds == 1..MaxTurns

NoResult == [kind |-> "none", assistantText |-> <<>>, error |-> ""]

\* A turn that has not started.  sent is the number of entries of messages in
\* the body of the last callOllama request.
IdleTurn ==
    [pc |-> "idle", sessionId |-> <<>>, userText |-> <<>>, prior |-> <<>>,
     messages |-> <<>>, step |-> 0, queue |-> <<>>, norm |-> NoNorm,
     toolResult |-> ToolFail(""), pending |-> NoEvent, calls |-> 0,
     sent |-> 0, mine |-> <<>>, result |-> NoResult]

\* No turn runs: the state of the variables of the turn loop in the runs of
\* the store and of the executor on their own.
NoTurns ==
    /\ turns = [t \in TurnIds |-> IdleTurn]
    /\ clock = 1
    /\ toolRounds = 0
    /\ faults = 0
    /\ overlap = FALSE

NoOutcome == [thrown |-> FALSE, msg |-> "none", value |-> <<>>, reads |-> <<>>,
              searches |-> <<>>]

\* tryParseToolCall and normalizeToolCall are not called on their own.
NoParsing ==
    /\ ptext = <<>>
    /\ pcall = [done |-> FALSE, call |-> NoToolCall]

NoNormalizing ==
    /\ ndesc = Descriptor(JUndefined, JUndefined, JUndefined)
    /\ ncall = [done |-> FALSE, norm |-> NoNorm]

\* sessionPath is not called on its own.
NoLocating == located = [sessionId |-> <<>>, done |-> FALSE, path |-> <<>>]

---------------------------------------------------------------------------
(* The WhatsApp bridge (src/unnamed/part_004): the ids of the messages it  *)
(* has sent, kept so that it can ignore them when they come back.          *)
(* A message id is a text of one token; the token is a serial number that  *)
(* stands for the characters of the id.                                    *)

\* const SENT_MAX = 300
SENT_MAX == 300

MsgId(k) == <<k>>

\* while (SENT_QUEUE.length > SENT_MAX) {
\*   const old = SENT_QUEUE.shift(); if (old) SENT_IDS.delete(old) }
RECURSIVE dropOldest(_, _)
dropOldest(ids, queue) ==
    IF Len(queue) > SENT_MAX
    THEN dropOldest(IF Head(queue) # <<>> THEN ids \ {Head(queue)} ELSE ids,
                    Tail(queue))
    ELSE [ids |-> ids, queue |-> queue]

\* rememberSent without `if (SENT_IDS.has(s)) return`.
rememberSentAgain(ids, queue, id) ==
    LET s == IF id.t = "string" THEN id.s ELSE <<>>
    IN  IF s = <<>> THEN [ids |-> ids, queue |-> queue]
        ELSE dropOldest(ids \cup {s}, Append(queue, s))

\* rememberSent(id), on SENT_IDS = ids and SENT_QUEUE = queue: their new
\* values.
rememberSent(ids, queue, id) ==
    LET s == IF id.t = "string" THEN id.s ELSE <<>>
    IN  IF s = <<>> THEN [ids |-> ids, queue |-> queue]
        ELSE IF s \in ids THEN [ids |-> ids, queue |-> queue]
        ELSE dropOldest(ids \cup {s}, Append(queue, s))

\* The s of rememberSent.
idText(id) == IF id.t = "string" THEN id.s ELSE <<>>

\* const WA_PREFIX = String(process.env.WA_PREFIX ?? '/ai ').trimEnd() + ' ',
\* and const prefix = WA_PREFIX.trimEnd(): with the environment's default.
WA_PREFIX == TextOf(<<"/ai">>)

\* String.prototype.endsWith
endsWith(s, suffix) ==
    /\ Len(suffix) <= Len(s)
    /\ SubSeq(s, Len(s) - Len(suffix) + 1, Len(s)) = suffix

isDirectChat(remoteJid) ==
    \/ endsWith(remoteJid, TextOf(<<"@s.whatsapp.net">>))
    \/ endsWith(remoteJid, TextOf(<<"@lid">>))

isGroupOrBroadcast(remoteJid) ==
    \/ endsWith(remoteJid, TextOf(<<"@g.us">>))
    \/ remoteJid = TextOf(<<"status", "@broadcast">>)
    \/ endsWith(remoteJid, TextOf(<<"@broadcast">>))

HandlerIds == 1..MaxHandlers

\* A handler of messages.upsert that is not running.
IdleHandler == [pc |-> "idle", remoteJid |-> <<>>, sentId |-> <<>>]

\* The bridge before anything was sent or received.
\*   arg       the value rememberSent was called with last
\*   net       the messages the network has still to deliver to the bridge
\*   handlers  the handlers of messages.upsert, each at its await
\*   serial    how many message ids the network has given out
\*   received  how many messages of other senders have arrived
\*   sent      history: the ids of the messages the bridge has sent
\*   started   history: the ids of the messages runTurn was called for
IdleBridge ==
    [arg |-> JUndefined, net |-> {},
     handlers |-> [h \in HandlerIds |-> IdleHandler],
     serial |-> 0, received |-> 0, sent |-> {}, started |-> {}]

NoBridge ==
    /\ SENT_IDS = {}
    /\ SENT_QUEUE = <<>>
    /\ sentLog = <<>>
    /\ wa = IdleBridge

\* runTool is not called on its own.
NoExecuting ==
    /\ world = [link |-> FALSE, inside |-> TRUE, search |-> "fail"]
    /\ tcall = [tool |-> FsReadText, args |-> JUndefined]
    /\ tout = NoOutcome

---------------------------------------------------------------------------
(* The executor on its own: one call against one environment.              *)

PathAlphabet == {"/", ".", "a", "l"}
RelPaths == SeqsUpTo(PathAlphabet, MaxPathLen)

ArgValues ==
    {JUndefined, JNull, JArr, JStr(<<"a">>), JObj(<<>>),
     JObj([path |-> JNum(1)]), JObj([query |-> JStr(<<>>)]),
     JObj([query |-> JStr(<<"q">>)]),
     JObj([query |-> JStr(<<"q">>), numResults |-> JNum(0), timeoutMs |-> JNum(99999)]),
     JObj([query |-> JStr(<<"q">>), numResults |-> JStr(<<"x">>), engine |-> JStr(<<"google">>)])}
        \cup {JObj([path |-> JStr(p)]) : p \in RelPaths}

ToolNames == {FsReadText, BrowserSearch, <<"unknown">>, <<"fs.writeText">>}
ToolCalls == [tool : ToolNames, args : ArgValues]

InitTool ==
    /\ NoTurns
    /\ files = NoFiles
    /\ appended = [p \in FilePaths |-> <<>>]
    /\ appendedUnder = [id \in SessionIds |-> <<>>]
    /\ lastRead = [p \in FilePaths |-> NotRead]
    /\ tcall \in ToolCalls
    /\ world \in Envs
    /\ tout = NoOutcome
    /\ NoParsing
    /\ NoNormalizing
    /\ NoLocating
    /\ NoBridge

ExecTool ==
    /\ tout = NoOutcome
    /\ tout' = runTool(tcall, WorkspaceDir, world)
    /\ UNCHANGED <<tcall, world>>
    /\ UNCHANGED <<storeVars, turnVars, parseVars, normVars, located, bridgeVars>>

NextTool == ExecTool

SpecTool == InitTool /\ [][NextTool]_vars

---------------------------------------------------------------------------
(* Claims about the executor, checked under SpecTool.                      *)

Executed == tout.msg # "none"

\* The call is an fs.readText call that reaches the sandbox: its arguments
\* are an object whose path is a string.
IsReadCall ==
    /\ tcall.tool = FsReadText
    /\ isPlainObject(tcall.args)
    /\ Prop(tcall.args, "path").t = "string"

RequestedPath == Prop(tcall.args, "path").s

\* The paths the sandbox has to reject: empty, absolute, or not denoting a
\* strict descendant of the workspace root.
MustReject(p) ==
    \/ Len(p) = 0
    \/ p[1] = "/"
    \/ ~IsStrictDescendant(ResolvedSegments(WorkspaceDir, p), WorkspaceSegments)

SandboxErrors ==
    {"args.path must be a non-empty string", "Absolute paths are not allowed",
     "Path escapes workspace"}

\* C8: an fs.readText call whose path is empty, absolute or resolves to a
\* location that is not a strict descendant of the workspace root ends as an
\* ok=false Tool Result carrying a sandbox error, without any filesystem read;
\* every read that is attempted is for a path strictly inside the root.
C8_SandboxRejectsBeforeRead ==
    (Executed /\ IsReadCall) =>
        /\ MustReject(RequestedPath) =>
              /\ ~ToolResultOf(tout).ok
              /\ ToolResultOf(tout).error \in SandboxErrors
              /\ tout.reads = <<>>
        /\ \A i \in 1..Len(tout.reads) :
              /\ ~MustReject(RequestedPath)
              /\ IsStrictDescendant(ResolvedSegments(<<>>, tout.reads[i]),
                                    WorkspaceSegments)

\* A traversal path (../a, which names the root itself) was rejected.
C8_Witness ==
    /\ Executed
    /\ IsReadCall
    /\ RequestedPath = <<".", ".", "/", "a">>
    /\ ToolResultOf(tout).error = "Path escapes workspace"
    /\ tout.reads = <<>>

\* C9: fs.readText never returns the content of a file located outside the
\* workspace root, symbolic links inside the workspace included: every file
\* whose text is returned lies, once links are followed, strictly below the
\* root.
C9_NoContentFromOutside ==
    (Executed /\ IsReadCall /\ ToolResultOf(tout).ok) =>
        \A i \in 1..Len(tout.reads) :
            IsStrictDescendant(
                RealSegments(world, ResolvedSegments(<<>>, tout.reads[i])),
                WorkspaceSegments)

\* C10: runTool never throws: every call returns a Tool Result value.
C10_RunToolNeverThrows == Executed => ~tout.thrown

\* The allow-list the specification fixes.
FixedAllowList == {<<"fs.readText">>, <<"browserSearch">>}

\* C11: a call whose tool name is not in the fixed allow-list {fs.readText,
\* browserSearch} returns ok=false with the "Tool not allowed" error (the
\* code's text is `Tool not allowed: ${toolCall.tool}`), whatever its
\* arguments are, and neither a file read nor a browser search is made for it.
C11_DisallowedToolIsRejectedUnexecuted ==
    (Executed /\ tcall.tool \notin FixedAllowList) =>
        /\ ~tout.thrown
        /\ ~tout.value.ok
        /\ tout.value.error = "Tool not allowed"
        /\ tout.reads = <<>>
        /\ tout.searches = <<>>

\* A call of fs.writeText with a path the sandbox would let through, in a
\* workspace that holds the file, was rejected as not allowed.
C11_Witness ==
    /\ Executed
    /\ tcall.tool = <<"fs.writeText">>
    /\ tcall.args = JObj([path |-> JStr(<<"a">>)])
    /\ world.inside
    /\ tout.value.error = "Tool not allowed"
    /\ tout.reads = <<>>

---------------------------------------------------------------------------
(* The store on its own: appends and reads by any caller.                  *)

\* Contents with the characters the line format depends on.
StoreContents ==
    {TextOf(<<>>), TextOf(<<"a">>), TextOf(<<LF>>), TextOf(<<"a", LF, "a">>),
     TextOf(<<QUOTE>>), TextOf(<<BSL>>), TextOf(<<BSL, "n">>), TextOf(<<SPACE>>),
     TextOf(<<"}", LF, "{">>)}

StoreCount ==
    Len(appended[SessionFile[<<"m">>]]) + Len(appended[SessionFile[<<"a", "/", "b">>]])

InitStore ==
    /\ NoTurns
    /\ files = NoFiles
    /\ appended = [p \in FilePaths |-> <<>>]
    /\ appendedUnder = [id \in SessionIds |-> <<>>]
    /\ lastRead = [p \in FilePaths |-> NotRead]
    /\ NoExecuting
    /\ NoParsing
    /\ NoNormalizing
    /\ NoLocating
    /\ NoBridge

\* await appendEvent(sessionId, ev) returns.
StoreAppend(sessionId, content) ==
    LET p == SessionFile[sessionId]
        ev == userEv(StoreCount + 1, content)
    IN  /\ StoreCount < MaxStoreEvents
        /\ files' = appendEvent(files, sessionId, ev)
        /\ appended' = [appended EXCEPT ![p] = Append(@, ev)]
        /\ appendedUnder' = [appendedUnder EXCEPT ![sessionId] = Append(@, ev)]
        /\ lastRead' = [lastRead EXCEPT ![p] = NotRead]
        /\ UNCHANGED <<toolVars, turnVars>>

\* await readEvents(sessionId) returns or throws.
StoreRead(sessionId) ==
    LET p == SessionFile[sessionId]
        r == readEvents(files, sessionId)
    IN  /\ ~lastRead[p].valid
        /\ lastRead' = [lastRead EXCEPT
                           ![p] = [valid |-> TRUE,
                                   events |-> IF r.thrown THEN <<r.msg>> ELSE r.value]]
        /\ UNCHANGED <<files, appended, appendedUnder, toolVars, turnVars>>

NextStore ==
    \/ \E id \in SessionIds, c \in StoreContents : StoreAppend(id, c)
    \/ \E id \in SessionIds : StoreRead(id)

SpecStore == InitStore /\ [][NextStore]_vars

\* C5: for every conversation, readEvents returns exactly the events whose
\* appendEvent has returned, in the order of the appends (a conversation being
\* what one log file holds), and a read made earlier, with no append to the
\* conversation since, returned the same sequence.
C5_ReadReturnsAppendsInOrder ==
    \A id \in SessionIds :
        LET p == SessionFile[id]
            r == readEvents(files, id)
        IN  /\ ~r.thrown
            /\ r.value = appended[p]
            /\ lastRead[p].valid => lastRead[p].events = r.value

\* Two events were appended to one conversation, the first holding a line
\* feed, and read back.
C5_Witness ==
    \E id \in SessionIds :
        LET p == SessionFile[id]
        IN  /\ Len(appended[p]) = 2
            /\ appended[p][1].content = TextOf(<<"a", LF, "a">>)
            /\ lastRead[p].valid
            /\ lastRead[p].events = appended[p]

---------------------------------------------------------------------------
(* The turn loop (runTurn.ts): one action per await that completes, each   *)
(* running the turn to its next await.                                     *)

\* What the model backend answers (callOllama's content and toolCalls).
ReadA == Descriptor(JStr(<<"c1">>), JStr(<<"fs.readText">>),
                    JObj([path |-> JStr(<<"a">>)]))
ReadEscape == Descriptor(JUndefined, JStr(<<"fs.readText">>),
                         JObj([path |-> JStr(<<".", ".", "/", "a">>)]))
Bogus == Descriptor(JStr(<<"c2">>), JStr(<<"bogus">>), JNull)
IndirectSearch ==
    Descriptor(JUndefined, JStr(<<"call">>),
               JObj([tool |-> JStr(<<"browserSearch">>),
                     args |-> JObj([query |-> JStr(<<"q">>)])]))

Response(content, toolCalls) == [content |-> content, toolCalls |-> toolCalls]
FinalResponse == Response(TextOf(<<"o", "k">>), <<>>)
\* An answer without descriptors whose text is a tool call in the format of
\* TOOLS.md: {"tool":"fs.readText","args":null}
InlineResponse ==
    Response(ObjectText(<<[key |-> "tool", value |-> JStr(<<"fs.readText">>)],
                          [key |-> "args", value |-> JNull]>>, <<>>), <<>>)
\* An answer without descriptors whose text is the text of the limit message.
EchoResponse == Response(LimitText, <<>>)
OneCall == Response(<<>>, <<ReadA>>)
ThreeCalls == Response(TextOf(<<"t">>), <<ReadEscape, Bogus, IndirectSearch>>)

\* What the model may answer when left tool rounds remain to it: an answer
\* without descriptors (a plain text, a tool call written as text, or, once
\* it asks for no more tools, the text of the limit message), or the request
\* for tools that is next in its script.
Responses(left) ==
    {IF left % 2 = 1 THEN InlineResponse
     ELSE IF left = 0 THEN EchoResponse ELSE FinalResponse}
        \cup (IF left = 0 THEN {}
              ELSE IF left % 4 = 0 THEN {ThreeCalls} ELSE {OneCall})

\* The conversations of the turns: two identifiers with different files.
TurnSessionIds == {<<"m">>, <<"a", "/", "b">>}

\* Turns are turns of one conversation, except the second turn of a pair
\* that may overlap, which is a turn of either conversation.
MainSessionIds == {<<"m">>}
OverlapTurns == {1, 2}

UserTexts == {TextOf(<<"h", LF, "i">>)}

\* The workspace of the turns: the file a exists, the search fails.
TurnWorld == [link |-> FALSE, inside |-> TRUE, search |-> "fail"]

AppendPcs == {"appendUser", "appendAssistantToolCall", "appendToolCall",
              "appendToolResult", "appendFinal"}
EndPcs == {"done", "failed", "aborted"}
InFlight(t) == turns[t].pc \notin ({"idle"} \cup EndPcs)

\* The mutant of BeginCall that executes the call without logging it.
BeginCallSkipsLog(turn, now) ==
    LET norm == normalizeToolCall(Head(turn.queue), now)
    IN  [turn EXCEPT !.norm = norm, !.queue = Tail(turn.queue), !.pc = "runTool"]

\* The mutant of BeginCall that leaves the descriptor in the queue.
BeginCallKeepsQueue(turn, now) ==
    LET norm == normalizeToolCall(Head(turn.queue), now)
    IN  [turn EXCEPT !.norm = norm,
                     !.pending = toolCallEv(now, norm), !.pc = "appendToolCall"]

\* The mutant of BeginCall that takes the descriptors from the end.
BeginCallLastFirst(turn, now) ==
    LET norm == normalizeToolCall(turn.queue[Len(turn.queue)], now)
    IN  [turn EXCEPT !.norm = norm,
                     !.queue = SubSeq(turn.queue, 1, Len(turn.queue) - 1),
                     !.pending = toolCallEv(now, norm), !.pc = "appendToolCall"]

\* for (const tc of toolCalls): the next descriptor is normalized and its
\* toolCall event created and handed to appendEvent.
BeginCall(turn, now) ==
    LET norm == normalizeToolCall(Head(turn.queue), now)
    IN  [turn EXCEPT !.norm = norm, !.queue = Tail(turn.queue),
                     !.pending = toolCallEv(now, norm), !.pc = "appendToolCall"]

\* The end of a round: step++, then the next callOllama, or, the loop being
\* over, the synthesized limit message.
EndOfRound(turn, now) ==
    IF LoopContinues(turn.step + 1)
    THEN [turn EXCEPT !.step = turn.step + 1, !.calls = turn.calls + 1,
                      !.sent = Len(turn.messages), !.pc = "callOllama"]
    ELSE [turn EXCEPT !.step = turn.step + 1,
                      !.pending = assistantEv(now, LimitText), !.pc = "appendFinal"]

\* What runTurn does when the appendEvent it awaits has returned.
AfterAppend(turn, now) ==
    CASE turn.pc = "appendUser" -> [turn EXCEPT !.pc = "loadWorkspace"]
      [] turn.pc = "appendAssistantToolCall" -> BeginCall(turn, now)
      [] turn.pc = "appendToolCall" -> [turn EXCEPT !.pc = "runTool"]
      [] turn.pc = "appendToolResult" ->
            LET pushed == [turn EXCEPT !.messages =
                              Append(turn.messages,
                                     ToolMessage(turn.norm, turn.toolResult))]
            IN  IF Len(turn.queue) > 0 THEN BeginCall(pushed, now)
                ELSE EndOfRound(pushed, now)
      [] turn.pc = "appendFinal" ->
            [turn EXCEPT !.pc = "done",
                         !.result = [kind |-> "returned",
                                     assistantText |-> turn.pending.content,
                                     error |-> ""]]

\* Whether the step from before to after created an event (and read the clock).
Created(before, after) == after.pc \in AppendPcs /\ after.pending # before.pending

Failed(turn, error) ==
    [turn EXCEPT !.pc = "failed",
                 !.result = [kind |-> "threw", assistantText |-> <<>>, error |-> error]]

\* runTurn(opts) is called.
StartTurn(t, sessionId, userText) ==
    /\ turns[t].pc = "idle"
    /\ \A u \in TurnIds : u < t => turns[u].pc # "idle"
    /\ IF overlap THEN t \in OverlapTurns ELSE \A u \in TurnIds : ~InFlight(u)
    /\ (overlap /\ t > 1) \/ sessionId \in MainSessionIds
    /\ turns' = [turns EXCEPT ![t] = [@ EXCEPT !.pc = "readEvents",
                                               !.sessionId = sessionId,
                                               !.userText = userText]]
    /\ UNCHANGED <<storeVars, clock, toolRounds, faults, overlap, toolVars>>

\* What runTurn does when readEvents has settled with r: it propagates the
\* error, or creates the user event and hands it to appendEvent.
AfterRead(turn, r, now) ==
    IF r.thrown THEN Failed(turn, r.msg)
    ELSE [turn EXCEPT !.prior = r.value, !.pending = userEv(now, turn.userText),
                      !.pc = "appendUser"]

\* const prior = await readEvents(opts.sessionId) completes.
ReadPrior(t) ==
    /\ turns[t].pc = "readEvents"
    /\ turns' = [turns EXCEPT ![t] =
                    AfterRead(turns[t], readEvents(files, turns[t].sessionId), clock)]
    /\ clock' = IF Created(turns[t], turns'[t]) THEN clock + 1 ELSE clock
    /\ UNCHANGED <<storeVars, toolRounds, faults, overlap, toolVars>>

\* An awaited appendEvent returns: the line is in the file, the turn goes on.
AppendDone(t) ==
    LET turn == turns[t]
        p == SessionFile[turn.sessionId]
        wrote == [turn EXCEPT !.mine = Append(turn.mine, turn.pending)]
        after == AfterAppend(wrote, clock)
    IN  /\ turn.pc \in AppendPcs
        /\ files' = appendEvent(files, turn.sessionId, turn.pending)
        /\ appended' = [appended EXCEPT ![p] = Append(@, turn.pending)]
        /\ appendedUnder' = [appendedUnder EXCEPT
                                 ![turn.sessionId] = Append(@, turn.pending)]
        /\ turns' = [turns EXCEPT ![t] = after]
        /\ clock' = IF Created(wrote, after) THEN clock + 1 ELSE clock
        /\ UNCHANGED <<lastRead, toolRounds, faults, overlap, toolVars>>

\* await loadWorkspaceMessages(agentId) completes; the message list is built
\* and the first callOllama is made.
LoadWorkspace(t) ==
    LET turn == turns[t]
        events == Append(turn.prior, turn.pending)
    IN  /\ turn.pc = "loadWorkspace"
        /\ turns' = [turns EXCEPT ![t] =
                        [turn EXCEPT !.messages = loadWorkspaceMessages
                                                      \o historyMsgs(events),
                                     !.prior = <<>>, !.step = 0, !.calls = 1,
                                     !.sent = Len(loadWorkspaceMessages)
                                                  + Len(historyMsgs(events)),
                                     !.pc = "callOllama"]]
        /\ UNCHANGED <<storeVars, clock, toolRounds, faults, overlap, toolVars>>

\* await callOllama(...) returns content and toolCalls.
ModelResponds(t, resp) ==
    LET turn == turns[t]
    IN  /\ turn.pc = "callOllama"
        /\ IF Len(resp.toolCalls) = 0
           THEN /\ turns' = [turns EXCEPT ![t] =
                               [turn EXCEPT !.pending = assistantEv(clock, resp.content),
                                            !.pc = "appendFinal"]]
                /\ toolRounds' = toolRounds
           ELSE /\ toolRounds > 0
                /\ turns' = [turns EXCEPT ![t] =
                               [turn EXCEPT
                                   !.pending = assistantToolCallEv(clock, resp.content),
                                   !.queue = resp.toolCalls,
                                   !.pc = "appendAssistantToolCall"]]
                /\ toolRounds' = toolRounds - 1
        /\ clock' = clock + 1
        /\ UNCHANGED <<storeVars, faults, overlap, toolVars>>

\* The mutant of AfterTool without the catch: what runTool throws is
\* propagated to the caller of runTurn.
AfterToolNoCatch(turn, outcome, now) ==
    IF outcome.thrown THEN Failed(turn, outcome.msg)
    ELSE [turn EXCEPT !.toolResult = outcome.value,
                      !.pending = toolResultEv(now, turn.norm, outcome.value),
                      !.pc = "appendToolResult"]

\* What runTurn does when runTool has settled with outcome: the toolResult
\* event is created and handed to appendEvent.
AfterTool(turn, outcome, now) ==
    [turn EXCEPT !.toolResult = ToolResultOf(outcome),
                 !.pending = toolResultEv(now, turn.norm, ToolResultOf(outcome)),
                 !.pc = "appendToolResult"]

\* The runTool call of a turn: runTool({ tool: norm.tool, args: norm.args },
\* workspaceDir).
CallOf(turn) == [tool |-> turn.norm.tool, args |-> turn.norm.args]

\* The calls the descriptors of the model can lead to, and runTool tabulated
\* over them in the workspace of the turns.
TurnCalls ==
    {[tool |-> normalizeToolCall(d, 0).tool, args |-> normalizeToolCall(d, 0).args] :
        d \in {ReadA, ReadEscape, Bogus, IndirectSearch}}
TurnOutcome == [call \in TurnCalls |-> runTool(call, WorkspaceDir, TurnWorld)]
RunToolOf(turn) == TurnOutcome[CallOf(turn)]

\* await runTool(...) returns or throws.
ToolReturns(t) ==
    /\ turns[t].pc = "runTool"
    /\ turns' = [turns EXCEPT ![t] =
                    AfterTool(turns[t], RunToolOf(turns[t]), clock)]
    /\ clock' = IF Created(turns[t], turns'[t]) THEN clock + 1 ELSE clock
    /\ UNCHANGED <<storeVars, toolRounds, faults, overlap, toolVars>>

\* The mutant of ModelFails that appends a partial assistant message before
\* the error is propagated.
ModelFailsAfterPartial(t, error) ==
    LET partial == assistantEv(clock, <<>>)
        p == SessionFile[turns[t].sessionId]
    IN  /\ turns[t].pc = "callOllama"
        /\ faults > 0
        /\ faults' = faults - 1
        /\ files' = appendEvent(files, turns[t].sessionId, partial)
        /\ appended' = [appended EXCEPT ![p] = Append(@, partial)]
        /\ appendedUnder' = [appendedUnder EXCEPT
                                 ![turns[t].sessionId] = Append(@, partial)]
        /\ turns' = [turns EXCEPT ![t] =
                        Failed([turns[t] EXCEPT !.mine = Append(@, partial)], error)]
        /\ clock' = clock + 1
        /\ UNCHANGED <<lastRead, toolRounds, overlap, toolVars>>

\* callOllama throws: fetch rejects, the status is not a success, or the body
\* has an error field.
ModelFails(t, error) ==
    /\ turns[t].pc = "callOllama"
    /\ faults > 0
    /\ faults' = faults - 1
    /\ turns' = [turns EXCEPT ![t] = Failed(turns[t], error)]
    /\ UNCHANGED <<storeVars, clock, toolRounds, overlap, toolVars>>

\* The errors callOllama throws: the rejection of fetch, `Ollama error
\* ${resp.status}: ${text}`, `Ollama returned error: ${data.error}`.
ModelErrors == {"fetch failed", "Ollama error", "Ollama returned error"}

\* The way the backend fails, when it does, at the call-th model call of a
\* turn: the three ways in turn.
ModelErrorAt(call) ==
    IF call % 3 = 1 THEN "fetch failed"
    ELSE IF call % 3 = 2 THEN "Ollama error"
    ELSE "Ollama returned error"

\* A storage operation rejects (an I/O error other than ENOENT): readFile,
\* mkdir or appendFile under readEvents or appendEvent, or the reads of
\* loadWorkspaceMessages.  Nothing is written.
StorageFails(t) ==
    /\ turns[t].pc \in (AppendPcs \cup {"readEvents", "loadWorkspace"})
    /\ faults > 0
    /\ faults' = faults - 1
    /\ turns' = [turns EXCEPT ![t] = Failed(turns[t], "EIO")]
    /\ UNCHANGED <<storeVars, clock, toolRounds, overlap, toolVars>>

\* The process is killed: every turn in flight is aborted where it is.
Crash ==
    /\ \E t \in TurnIds : InFlight(t)
    /\ faults > 0
    /\ faults' = faults - 1
    /\ turns' = [t \in TurnIds |->
                    IF InFlight(t) THEN [turns[t] EXCEPT !.pc = "aborted"]
                    ELSE turns[t]]
    /\ UNCHANGED <<storeVars, clock, toolRounds, overlap, toolVars>>

InitTurns(mayOverlap, rounds) ==
    /\ files = NoFiles
    /\ appended = [p \in FilePaths |-> <<>>]
    /\ appendedUnder = [id \in SessionIds |-> <<>>]
    /\ lastRead = [p \in FilePaths |-> NotRead]
    /\ turns = [t \in TurnIds |-> IdleTurn]
    /\ clock = 1
    /\ toolRounds = rounds
    /\ faults = MaxFaults
    /\ overlap = mayOverlap
    /\ NoExecuting
    /\ NoParsing
    /\ NoNormalizing
    /\ NoLocating
    /\ NoBridge

Init == InitTurns(FALSE, MaxToolRounds)

InitOverlap == InitTurns(TRUE, MaxOverlapToolRounds)

TurnStep(t) ==
    \/ ReadPrior(t)
    \/ AppendDone(t)
    \/ LoadWorkspace(t)
    \/ \E resp \in Responses(toolRounds) : ModelResponds(t, resp)
    \/ ToolReturns(t)

Next ==
    \/ \E t \in TurnIds, id \in TurnSessionIds, text \in UserTexts :
          StartTurn(t, id, text)
    \/ \E t \in TurnIds : TurnStep(t)
    \/ \E t \in TurnIds : ModelFails(t, ModelErrorAt(turns[t].calls))
    \/ \E t \in TurnIds : StorageFails(t)
    \/ Crash

\* Turns one after the other.
Spec == Init /\ [][Next]_vars

\* Turns that may overlap.
SpecOverlap == InitOverlap /\ [][Next]_vars

\* A step of a turn: the operation it awaits settles, by returning or by
\* failing (or the process is killed under it).
Settles == turns' # turns

AnyInFlight == \E t \in TurnIds : InFlight(t)

\* Turns one after the other, where every operation a turn awaits eventually
\* returns or fails: weak fairness of the steps of the turn in flight,
\* WF_vars(Settles), written out with the condition under which there is a
\* step to take (a turn is in flight) in the place of ENABLED.
SpecFair ==
    /\ Init
    /\ [][Next]_vars
    /\ ([]<>(~AnyInFlight) \/ []<><<Settles>>_vars)

---------------------------------------------------------------------------
(* Claims about the turn loop.                                             *)

IsPrefix(s, t) == Len(s) <= Len(t) /\ SubSeq(t, 1, Len(s)) = s

Last(s) == s[Len(s)]

LimitEvent(ev) ==
    ev.role = "assistant" /\ ev.type = "message" /\ ev.content = LimitText

\* C1: a turn calls the model at most maxToolSteps (5) times; once five
\* rounds with tool calls are over, the only thing left to the turn is the
\* synthesized limit message: it is the event being appended, and when the
\* turn has returned it is the last event the turn appended, it is in the
\* log of the conversation, and its text is the text returned.
C1_AtMostFiveModelCalls ==
    \A t \in TurnIds :
        LET turn == turns[t]
        IN  /\ turn.calls <= maxToolSteps
            /\ turn.step <= maxToolSteps
            /\ turn.step = maxToolSteps =>
                  /\ turn.calls = maxToolSteps
                  /\ turn.pc \in {"appendFinal"} \cup EndPcs
                  /\ LimitEvent(turn.pending)
                  /\ turn.pc = "done" =>
                        /\ turn.result.kind = "returned"
                        /\ turn.result.assistantText = LimitText
                        /\ Last(turn.mine) = turn.pending
                        /\ LET log == readEvents(files, turn.sessionId).value
                           IN  \E i \in DOMAIN log : log[i] = turn.pending

\* A turn has returned the limit message after five rounds with tool calls.
C1_Witness ==
    \E t \in TurnIds :
        /\ turns[t].pc = "done"
        /\ turns[t].step = maxToolSteps
        /\ turns[t].calls = maxToolSteps
        /\ turns[t].result.assistantText = LimitText
        /\ Len(turns[t].mine) >= 2 + 3 * maxToolSteps

\* What is left to a turn in flight: the rounds the loop still allows, the
\* part of the turn or of the round it is in, the descriptors still queued,
\* and the part of the call it is in.
Measure(turn) ==
    <<maxToolSteps - turn.step,
      CASE turn.pc = "readEvents" -> 5
        [] turn.pc = "appendUser" -> 4
        [] turn.pc = "loadWorkspace" -> 3
        [] turn.pc = "callOllama" -> 2
        [] turn.pc = "appendAssistantToolCall" -> 1
        [] OTHER -> 0,
      Len(turn.queue),
      CASE turn.pc = "appendToolCall" -> 2
        [] turn.pc = "runTool" -> 1
        [] OTHER -> 0>>

\* The lexicographic order on measures.
LexLess(a, b) ==
    \E i \in 1..4 : a[i] < b[i] /\ \A j \in 1..(i - 1) : a[j] = b[j]

\* Every step a turn takes while in flight makes its measure smaller, and
\* the measure never leaves the naturals.
MeasureDecreases ==
    \A t \in TurnIds :
        (InFlight(t) /\ InFlight(t)' /\ turns'[t] # turns[t]) =>
            /\ \A i \in 1..4 : Measure(turns'[t])[i] >= 0
            /\ LexLess(Measure(turns'[t]), Measure(turns[t]))

\* C2: every turn terminates.  Whatever the model answers, each step of a
\* turn in flight decreases a measure that is bounded below, and, every
\* awaited operation eventually returning or failing, the turn in flight
\* eventually is over: it has returned its text (done) or propagated an error
\* (failed), unless the process was killed under it (aborted).  In temporal
\* terms, AnyInFlight ~> ~AnyInFlight, which is []<>(~AnyInFlight).
C2_EveryTurnTerminates ==
    /\ [][MeasureDecreases]_vars
    /\ []<>(~AnyInFlight)

\* One turn has returned after a round of one and a round of three
\* descriptors, and another has propagated an error.
C2_Witness ==
    \E t, u \in TurnIds :
        /\ turns[t].pc = "done"
        /\ turns[t].result.kind = "returned"
        /\ turns[t].step >= 2
        /\ Len(turns[t].mine) >= 12
        /\ turns[u].pc = "failed"
        /\ turns[u].result.kind = "threw"

\* The runTool call a turn awaits fails: it throws, or returns ok=false.
ToolFails(turn) == RunToolOf(turn).thrown \/ ~RunToolOf(turn).value.ok

\* The events of the conversation of turn t as the store reads them.
LogOf(fs, turn) == readEvents(fs, turn.sessionId).value

\* The toolResult events of a turn that report a failure with error.
FailureLogged(turn, error) ==
    \E i \in DOMAIN turn.mine :
        /\ turn.mine[i].type = "toolResult"
        /\ ~turn.mine[i].toolResult.ok
        /\ turn.mine[i].toolResult.error = error

\* What C3 asks of a step: when the runTool a turn awaits has settled, the
\* turn is about to append its toolResult event, which, if the execution
\* failed, has ok=false and an error text; and when that append has returned,
\* the event is the last of the log and the turn goes on with the next
\* descriptor, the next model call or the limit message, nothing propagated.
ToolFailureAbsorbed ==
    \A t \in TurnIds :
        /\ (turns[t].pc = "runTool" /\ turns'[t].pc \notin {"runTool", "aborted"}) =>
              /\ turns'[t].pc = "appendToolResult"
              /\ turns'[t].pending.type = "toolResult"
              /\ turns'[t].pending.toolResult.present
              /\ ToolFails(turns[t]) =>
                    /\ ~turns'[t].pending.toolResult.ok
                    /\ turns'[t].pending.toolResult.error # ""
        /\ (/\ turns[t].pc = "appendToolResult"
            /\ turns'[t].pc \notin {"appendToolResult", "failed", "aborted"}) =>
              /\ Last(LogOf(files', turns[t])) = turns[t].pending
              /\ turns'[t].pc \in {"appendToolCall", "callOllama", "appendFinal"}
              /\ turns'[t].result = NoResult

\* C3: a tool execution failure never aborts the turn: it is appended as a
\* toolResult event with ok=false and an error text, and the turn continues.
C3_ToolFailureDoesNotAbort == [][ToolFailureAbsorbed]_vars

\* A turn has returned after a path rejected by the sandbox (which runTool
\* throws), a tool that is not allowed and a failed search were logged.
C3_Witness ==
    \E t \in TurnIds :
        /\ turns[t].pc = "done"
        /\ turns[t].result.kind = "returned"
        /\ FailureLogged(turns[t], "Path escapes workspace")
        /\ FailureLogged(turns[t], "Tool not allowed")
        /\ FailureLogged(turns[t], "Search failed")

\* The turn failed because a model call failed.
ModelFailed(t) == turns[t].pc = "failed" /\ turns[t].result.error \in ModelErrors

\* C4 (amended): if a model call fails on any round of a turn, runTurn
\* propagates an error and the failed call leaves no event: the turn has
\* appended no assistant event of kind message, the assistant-role events it
\* has appended are the toolCall events of the rounds before, and the last
\* event it appended is its user event or the toolResult event that ended the
\* round before.
C4_ModelFailureLeavesNoAssistantMessage ==
    \A t \in TurnIds :
        ModelFailed(t) =>
            /\ turns[t].result.kind = "threw"
            /\ \A i \in DOMAIN turns[t].mine :
                  turns[t].mine[i].role = "assistant" => turns[t].mine[i].type = "toolCall"
            /\ Len(turns[t].mine) > 0
            /\ Last(turns[t].mine).type = "toolResult" \/ Last(turns[t].mine).role = "user"
            /\ LET log == LogOf(files, turns[t])
               IN  \A i \in DOMAIN turns[t].mine :
                       \E j \in DOMAIN log : log[j] = turns[t].mine[i]

\* A model call failed on a later round, after the tool calls of a round
\* were logged.
C4_Witness ==
    \E t \in TurnIds :
        /\ ModelFailed(t)
        /\ turns[t].step >= 1
        /\ Len(turns[t].mine) >= 4

\* C4 as stated: a turn whose model call failed has appended no
\* assistant-role event.
C4_NoAssistantRoleEvent ==
    \A t \in TurnIds :
        ModelFailed(t) =>
            \A i \in DOMAIN turns[t].mine : turns[t].mine[i].role # "assistant"

\* What C6 asks of a step, for the file of every conversation: the file is
\* not removed, what it held is the beginning of what it holds, and the
\* events read from it before are, unchanged and in the same order, the
\* first events read from it after.
LogOnlyGrows ==
    \A id \in SessionIds :
        LET p == SessionFile[id]
            before == readEvents(files, id)
            after == readEvents(files', id)
        IN  files'[p] # files[p] =>
                /\ files[p].exists => files'[p].exists
                /\ IsPrefix(files[p].txt, files'[p].txt)
                /\ ~before.thrown
                /\ ~after.thrown
                /\ IsPrefix(before.value, after.value)

\* C6: the log of a conversation is append-only: every step of every turn,
\* failed and aborted turns included, leaves the events already in a log in
\* place, unchanged and in order, and at most adds events after them.
C6_LogIsAppendOnly == [][LogOnlyGrows]_vars

\* The log of a conversation holds the events of a turn that failed or was
\* aborted, followed by the events of a later turn that returned.
C6_Witness ==
    \E t, u \in TurnIds :
        /\ turns[t].pc \in {"failed", "aborted"}
        /\ turns[u].pc = "done"
        /\ turns[t].sessionId = turns[u].sessionId
        /\ Len(turns[t].mine) >= 2
        /\ LogOf(files, turns[t]) = turns[t].mine \o turns[u].mine

\* The tool a toolResult event reports on: the tool field of the JSON text
\* that is its content.
ToolOfResult(ev) == ev.content[1].json.tool

\* In log, every toolResult event comes after a toolCall event for its tool.
ResultsFollowCalls(log) ==
    \A i \in DOMAIN log :
        log[i].type = "toolResult" =>
            \E j \in 1..(i - 1) :
                /\ log[j].type = "toolCall"
                /\ log[j].tool.present
                /\ log[j].tool.name = ToolOfResult(log[i])

\* C7: in every reachable state, with turns interleaved on one conversation
\* and after aborted turns too, every toolResult event of a log is preceded
\* in the log by a toolCall event for the same tool.
C7_ToolResultFollowsToolCall ==
    \A id \in TurnSessionIds :
        LET read == readEvents(files, id)
        IN  ~read.thrown /\ ResultsFollowCalls(read.value)

\* Two turns have appended to one conversation, their events interleaved,
\* and the log holds a toolResult event.
C7_Witness ==
    \E t, u \in TurnIds :
        /\ t # u
        /\ turns[t].sessionId = turns[u].sessionId
        /\ Len(turns[t].mine) >= 2
        /\ Len(turns[u].mine) >= 2
        /\ LET log == LogOf(files, turns[t])
           IN  /\ log # turns[t].mine \o turns[u].mine
               /\ log # turns[u].mine \o turns[t].mine
               /\ \E i \in DOMAIN log : log[i].type = "toolResult"

---------------------------------------------------------------------------
(* Claims about the context sent to the model and the tool calls.          *)

IsMessageKind(ev) == ev.type = "message"
IsToolResultKind(ev) == ev.type = "toolResult"

\* The position in log of the user event of turn.
UserEventAt(log, turn) == CHOOSE i \in DOMAIN log : log[i] = turn.mine[1]

\* The context a turn has to send: the persona entry, the manifest entry, the
\* message-kind events of the history up to the user event of the turn, and
\* one tool entry per tool result of the turn.
ExpectedContext(log, turn) ==
    LET history == SelectSeq(SubSeq(log, 1, UserEventAt(log, turn)), IsMessageKind)
        results == SelectSeq(turn.mine, IsToolResultKind)
    IN  <<[role |-> "system", name |-> <<>>, content |-> TextOf(<<"SOUL.md">>)],
          [role |-> "system", name |-> <<>>, content |-> TextOf(<<"TOOLS.md">>)]>>
        \o [i \in 1..Len(history) |->
               [role |-> history[i].role, name |-> <<>>,
                content |-> history[i].content]]
        \o [i \in 1..Len(results) |->
               [role |-> "tool", name |-> ToolOfResult(results[i]),
                content |-> <<[json |-> [ok |-> results[i].toolResult.ok,
                                         error |-> results[i].toolResult.error,
                                         result |-> results[i].toolResult.result]]>>]]

\* The entries of a message list without the identifiers of the calls.
Shown(messages) ==
    [i \in 1..Len(messages) |->
        [role |-> messages[i].role, name |-> messages[i].name,
         content |-> messages[i].content]]

\* C12: whenever a turn calls the model, the message list it sends is the
\* persona entry, the manifest entry, every message-kind event of the
\* persisted history of the conversation up to the user event of the turn, in
\* log order, and then one tool entry per tool call the turn has executed, in
\* execution order; no toolCall or toolResult event of the history is in it.
C12_ContextIsPreamblesMessagesThenToolEntries ==
    \A t \in TurnIds :
        turns[t].pc = "callOllama" =>
            /\ ~readEvents(files, turns[t].sessionId).thrown
            /\ Shown(turns[t].messages)
                   = ExpectedContext(LogOf(files, turns[t]), turns[t])

\* A turn makes its second model call, after one tool call of its own, on a
\* conversation whose history holds tool events of an earlier turn.
C12_Witness ==
    \E t \in TurnIds :
        /\ turns[t].pc = "callOllama"
        /\ turns[t].calls = 2
        /\ Len(turns[t].messages) > 4
        /\ LET log == LogOf(files, turns[t])
           IN  \E i \in 1..(UserEventAt(log, turns[t]) - 1) :
                   log[i].type = "toolResult"

\* C13: every Tool Result a turn produces is appended to the log and is in the
\* message list of a later model call of the turn: when a turn has returned,
\* each of its toolResult events is in the log and each tool entry of its
\* message list was part of the body of a model call.
C13_EveryToolResultReachesModelAndLog ==
    \A t \in TurnIds :
        turns[t].pc = "done" =>
            LET turn == turns[t]
                log == LogOf(files, turn)
                results == SelectSeq(turn.mine, IsToolResultKind)
            IN  /\ \A i \in DOMAIN results : \E j \in DOMAIN log : log[j] = results[i]
                /\ \A i \in DOMAIN turn.messages :
                       turn.messages[i].role = "tool" => i <= turn.sent

---------------------------------------------------------------------------
(* tryParseToolCall on its own: one call on one text.                      *)

\* The objects of the texts: up to MaxMembers properties, in any order and
\* with repetitions.
MemberSeqs ==
    SeqsUpTo([key : {"tool", "args", "foo"},
              value : {JNull, JNum(1), JStr(<<>>), JStr(<<"fs.readText">>),
                       JObj([path |-> JStr(<<"a">>)])}],
             MaxMembers)

\* The texts handed to tryParseToolCall: an object of the given members, with
\* or without a space after its colons, or a text that is no object, between
\* a prefix and a suffix.
ParseTexts(members) ==
    LET call == <<[key |-> "tool", value |-> JStr(<<"fs.readText">>)],
                  [key |-> "args", value |-> JNull]>>
        others ==
            {TextOf(<<"hello", SPACE, "there">>), TextOf(<<"null">>),
             TextOf(<<"[", "]">>),
             TextOf(<<"[">>) \o ObjectText(call, <<>>) \o TextOf(<<"]">>),
             TextOf(<<"{">>) \o MembersText(call, <<>>),
             TextOf(<<"{", QUOTE, "tool", QUOTE, "}">>)}
        prefixes == {TextOf(<<>>), TextOf(<<SPACE, LF>>), TextOf(<<"hello">>)}
        suffixes == {TextOf(<<>>), TextOf(<<LF>>), TextOf(<<"}">>), TextOf(<<"there">>)}
        spaces == {TextOf(<<>>), TextOf(<<SPACE>>)}
    IN  {pre \o core \o post :
            pre \in prefixes, post \in suffixes,
            core \in {ObjectText(m, ws) : m \in members, ws \in spaces}
                         \cup others}

InitParse ==
    /\ NoTurns
    /\ files = NoFiles
    /\ appended = [p \in FilePaths |-> <<>>]
    /\ appendedUnder = [id \in SessionIds |-> <<>>]
    /\ lastRead = [p \in FilePaths |-> NotRead]
    /\ NoExecuting
    /\ NoNormalizing
    /\ NoLocating
    /\ NoBridge
    /\ ptext \in ParseTexts(MemberSeqs)
    /\ pcall = [done |-> FALSE, call |-> NoToolCall]

\* tryParseToolCall(ptext) returns.
ParseText ==
    /\ ~pcall.done
    /\ pcall' = [done |-> TRUE, call |-> tryParseToolCall(ptext)]
    /\ UNCHANGED <<ptext, storeVars, turnVars, execVars, normVars, located, bridgeVars>>

SpecParse == InitParse /\ [][ParseText]_vars

---------------------------------------------------------------------------
(* Claims about tryParseToolCall, checked under SpecParse.                 *)

NotWhitespace(tok) == tok \notin {Ch(SPACE), Ch(LF)}

\* The property of key k that counts in members: the last one.
LastMember(members, k) ==
    LET at == {i \in 1..Len(members) : members[i].key = k}
    IN  members[CHOOSE i \in at : \A j \in at : j <= i]

HasMember(members, k) == \E i \in 1..Len(members) : members[i].key = k

\* The objects that are tool calls: the property tool is a non-empty string
\* and there is a property args.
ToolCallMembers ==
    {m \in MemberSeqs :
        /\ HasMember(m, "tool")
        /\ LastMember(m, "tool").value.t = "string"
        /\ Len(LastMember(m, "tool").value.s) > 0
        /\ HasMember(m, "args")}

\* Their texts, without whitespace, each with the call it is.
ToolCallTexts ==
    {[text |-> ObjectText(m, <<>>),
      call |-> [found |-> TRUE, tool |-> LastMember(m, "tool").value.s,
                args |-> LastMember(m, "args").value]] : m \in ToolCallMembers}

\* C15: tryParseToolCall returns the call {tool, args} exactly when the text,
\* whitespace around it aside, is one JSON object whose property tool is a
\* non-empty string and which has a property args of any value (null
\* included), and returns null for every other text, "hello there" and
\* {"foo":1} among them.
C15_ParsesExactlyToolCallObjects ==
    pcall.done =>
        LET bare == SelectSeq(ptext, NotWhitespace)
        IN  IF \E e \in ToolCallTexts : e.text = bare
            THEN \E e \in ToolCallTexts : e.text = bare /\ pcall.call = e.call
            ELSE pcall.call = NoToolCall

\* A text with whitespace around an object whose args is null was parsed to
\* its call, and so was one with a property besides tool and args.
C15_Witness ==
    /\ pcall.done
    /\ pcall.call.found
    /\ pcall.call.args = JNull
    /\ ptext[1] = Ch(SPACE)
    /\ ptext[Len(ptext)] = Ch(LF)

---------------------------------------------------------------------------
(* Claims about tool calls written as text and about normalization.        *)

\* C14: a response without descriptors whose trimmed text is one JSON object
\* with a non-empty string tool and an args property is treated as a tool
\* call and not as the answer: no assistant message a turn creates has such
\* a text as its content.
C14_InlineToolCallIsNotTheAnswer ==
    \A t \in TurnIds :
        /\ (turns[t].pending.role = "assistant" /\ turns[t].pending.type = "message")
               => ~tryParseToolCall(turns[t].pending.content).found
        /\ \A i \in DOMAIN turns[t].mine :
               (turns[t].mine[i].role = "assistant" /\ turns[t].mine[i].type = "message")
                   => ~tryParseToolCall(turns[t].mine[i].content).found

---------------------------------------------------------------------------
(* normalizeToolCall on its own: one call on one descriptor.               *)

\* The tool names of the descriptors: runs of name characters, the junk
\* prefix, a space and a character outside the class, up to MaxNameLen
\* tokens.
DescriptorNames ==
    SeqsUpTo({"fs.readText", "call", JunkPrefix, " ", "!"}, MaxNameLen)

\* The descriptors handed to normalizeToolCall: with and without an id, a
\* function, a name among the given ones; the arguments a plain value, or an
\* object with a tool (a name or a number) and with or without args.
Descriptors(named) ==
    LET ids == {JUndefined, JStr(<<>>), JStr(<<"c1">>)}
        names == {JUndefined} \cup {JStr(n) : n \in named}
        inner == {JNum(1)} \cup {JStr(n) : n \in named}
        path == JObj([path |-> JStr(<<"a">>)])
        arguments ==
            {JUndefined, JNull, JArr, JStr(<<"x">>), path}
                \cup {JObj([tool |-> x]) : x \in inner}
                \cup {JObj([tool |-> x, args |-> a]) : x \in inner, a \in {JNull, path}}
    IN  {Descriptor(id, name, a) : id \in ids, name \in names, a \in arguments}
            \cup {[id |-> JUndefined, function |-> JUndefined]}

InitNorm ==
    /\ NoTurns
    /\ files = NoFiles
    /\ appended = [p \in FilePaths |-> <<>>]
    /\ appendedUnder = [id \in SessionIds |-> <<>>]
    /\ lastRead = [p \in FilePaths |-> NotRead]
    /\ NoExecuting
    /\ NoParsing
    /\ NoLocating
    /\ NoBridge
    /\ ndesc \in Descriptors(DescriptorNames)
    /\ ncall = [done |-> FALSE, norm |-> NoNorm]

\* normalizeToolCall(ndesc) returns.
Normalize ==
    /\ ~ncall.done
    /\ ncall' = [done |-> TRUE, norm |-> normalizeToolCall(ndesc, 0)]
    /\ UNCHANGED <<ndesc, storeVars, turnVars, execVars, parseVars, located, bridgeVars>>

SpecNorm == InitNorm /\ [][Normalize]_vars

---------------------------------------------------------------------------
(* Claims about normalizeToolCall, checked under SpecNorm.                 *)

\* The arguments of the descriptor name a tool themselves.
IsIndirection ==
    /\ isPlainObject(ndesc.function)
    /\ isPlainObject(Prop(ndesc.function, "arguments"))
    /\ Prop(Prop(ndesc.function, "arguments"), "tool").t = "string"

InnerTool == Prop(Prop(ndesc.function, "arguments"), "tool")
InnerArgs == Prop(Prop(ndesc.function, "arguments"), "args")

\* C16: a descriptor whose arguments are an object {tool: X, args: A} with X
\* a string normalizes to the call of the tool X, sanitized, with the
\* arguments A, whatever the outer function name of the descriptor is.
C16_IndirectionNamesTheTool ==
    (ncall.done /\ IsIndirection) =>
        /\ ncall.norm.tool = sanitizeToolName(InnerTool)
        /\ ncall.norm.args = InnerArgs

\* A descriptor of the function call whose arguments name fs.readText, behind
\* the junk prefix, normalized to fs.readText with the inner arguments.
C16_Witness ==
    /\ ncall.done
    /\ IsIndirection
    /\ Prop(ndesc.function, "name") = JStr(<<"call">>)
    /\ InnerTool = JStr(<<JunkPrefix, "fs.readText">>)
    /\ InnerArgs = JObj([path |-> JStr(<<"a">>)])
    /\ ncall.norm.tool = <<"fs.readText">>
    /\ ncall.norm.args = InnerArgs

\* C17: every canonical tool name normalizeToolCall produces is non-empty:
\* when sanitizing the name of the descriptor (the outer function name, or
\* the inner tool of an indirection) leaves nothing, the name is 'unknown'.
C17_CanonicalNameIsNeverEmpty ==
    ncall.done =>
        /\ Len(ncall.norm.tool) > 0
        /\ (IsIndirection /\ Len(sanitizeToolName(InnerTool)) = 0)
               => ncall.norm.tool = <<"unknown">>
        /\ (~IsIndirection /\ isPlainObject(ndesc.function)
              /\ Len(sanitizeToolName(Prop(ndesc.function, "name"))) = 0)
               => ncall.norm.tool = <<"unknown">>

---------------------------------------------------------------------------
(* Claims about the order of the tool calls of a response.                 *)

\* The event a turn appends for a response with descriptors, before the
\* events of the calls.
IsRoundMarker(ev) == ev.type = "toolCall" /\ ~ev.tool.present

HasRound(turn) == \E i \in DOMAIN turn.mine : IsRoundMarker(turn.mine[i])

\* The position of the marker of the last round of a turn.
LastRoundAt(turn) ==
    CHOOSE i \in DOMAIN turn.mine :
        /\ IsRoundMarker(turn.mine[i])
        /\ \A j \in DOMAIN turn.mine : IsRoundMarker(turn.mine[j]) => j <= i

\* The events of the last round of a turn, after its marker.
LastRound(turn) == SubSeq(turn.mine, LastRoundAt(turn) + 1, Len(turn.mine))

\* The tools the descriptors of the last round name, in the order given (the
\* responses of the model differ in their text).
ToolsAsked(turn) ==
    LET descriptors == IF turn.mine[LastRoundAt(turn)].content = ThreeCalls.content
                       THEN ThreeCalls.toolCalls ELSE OneCall.toolCalls
    IN  [i \in 1..Len(descriptors) |-> normalizeToolCall(descriptors[i], 0).tool]

\* C18: the descriptors d1..dn of one response are executed one at a time in
\* the order given: the log receives toolCall(d1), toolResult(d1),
\* toolCall(d2), toolResult(d2), ...; while a call is executed its toolCall
\* event and the toolResult events of all calls before it are appended; and
\* the next model call is made, or the limit message appended, only when the
\* toolResult of dn is appended.
C18_CallsRunOneAtATimeInOrder ==
    \A t \in TurnIds :
        HasRound(turns[t]) =>
            LET round == LastRound(turns[t])
                asked == ToolsAsked(turns[t])
            IN  /\ Len(round) <= 2 * Len(asked) + 1
                /\ \A j \in DOMAIN round :
                       IF j > 2 * Len(asked) THEN round[j].type = "message"
                       ELSE IF j % 2 = 1
                       THEN /\ round[j].type = "toolCall"
                            /\ round[j].tool.present
                            /\ round[j].tool.name = asked[(j + 1) \div 2]
                       ELSE /\ round[j].type = "toolResult"
                            /\ ToolOfResult(round[j]) = asked[j \div 2]
                /\ turns[t].pc = "runTool" =>
                       /\ Len(round) % 2 = 1
                       /\ Len(round) = 2 * (Len(asked) - Len(turns[t].queue)) - 1
                /\ turns[t].pc = "callOllama" => Len(round) = 2 * Len(asked)

\* A turn makes its next model call after a response with three descriptors:
\* the six events of the three calls are appended.
C18_Witness ==
    \E t \in TurnIds :
        /\ turns[t].pc = "callOllama"
        /\ HasRound(turns[t])
        /\ Len(ToolsAsked(turns[t])) = 3
        /\ Len(LastRound(turns[t])) = 6

---------------------------------------------------------------------------
(* Claims about turns and conversations that share the store.              *)

\* The events of turn t in a log, by position.
PositionsOf(log, t) ==
    {i \in DOMAIN log : \E k \in DOMAIN turns[t].mine : turns[t].mine[k] = log[i]}

\* C19: when two turns run on one conversation identifier, their appends do
\* not interleave: in the log no event of one turn lies between two events
\* of the other.
C19_ConcurrentTurnsDoNotInterleave ==
    \A t \in TurnIds, u \in TurnIds :
        (t # u /\ turns[t].pc # "idle" /\ turns[u].pc # "idle"
              /\ turns[t].sessionId = turns[u].sessionId
              /\ ~readEvents(files, turns[t].sessionId).thrown) =>
            LET log == LogOf(files, turns[t])
            IN  \A i \in PositionsOf(log, t), k \in PositionsOf(log, t) :
                    \A j \in PositionsOf(log, u) : ~(i < j /\ j < k)

\* C20: appends under one conversation identifier never change the event
\* sequence of a different identifier: for every identifier, readEvents
\* returns exactly the events appended under that identifier, whatever was
\* appended under the others.
C20_IdentifiersAreIsolated ==
    \A id \in SessionIds :
        /\ ~readEvents(files, id).thrown
        /\ readEvents(files, id).value = appendedUnder[id]
---------------------------------------------------------------------------
(* sessionPath on its own: one identifier, of any characters.              *)

\* The identifiers handed to sessionPath, the empty one included: a
\* character the sanitizer keeps, the dot, the separators of POSIX and of
\* Windows paths.
Identifiers == SeqsUpTo({"a", ".", SEP, BSL}, MaxIdLen)

InitLocate ==
    /\ NoTurns
    /\ files = NoFiles
    /\ appended = [p \in FilePaths |-> <<>>]
    /\ appendedUnder = [id \in SessionIds |-> <<>>]
    /\ lastRead = [p \in FilePaths |-> NotRead]
    /\ NoExecuting
    /\ NoParsing
    /\ NoNormalizing
    /\ located \in [sessionId : Identifiers, done : {FALSE}, path : {<<>>}]
    /\ NoBridge

\* const p = sessionPath(sessionId), in readEvents and in appendEvent.
Locate ==
    /\ ~located.done
    /\ located' = [located EXCEPT !.done = TRUE,
                                  !.path = sessionPath(located.sessionId)]
    /\ UNCHANGED <<storeVars, turnVars, execVars, parseVars, normVars, bridgeVars>>

SpecLocate == InitLocate /\ [][Locate]_vars

---------------------------------------------------------------------------
(* Claims about the storage location, checked under SpecLocate.            *)

\* The path names an entry of the directory dir itself: it is dir, a
\* separator, and one segment that is neither empty nor "." nor "..".
DirectlyInside(path, dir) ==
    LET name == SubSeq(path, Len(dir) + 2, Len(path))
    IN  /\ Len(path) > Len(dir) + 1
        /\ SubSeq(path, 1, Len(dir) + 1) = dir \o <<SEP>>
        /\ \A i \in 1..Len(name) : name[i] # SEP
        /\ name \notin {<<".">>, <<".", ".">>}

\* C21: for every conversation identifier, those with path separators or
\* ".." segments included, the path appendEvent and readEvents use is a file
\* directly inside the sessions root directory.
C21_LogFileIsDirectlyInsideRoot ==
    located.done => DirectlyInside(located.path, ROOT)

\* The path of an identifier that starts with "../" was computed.
C21_Witness ==
    /\ located.done
    /\ Len(located.sessionId) >= 3
    /\ SubSeq(located.sessionId, 1, 3) = <<".", ".", SEP>>
    /\ DirectlyInside(located.path, ROOT)

---------------------------------------------------------------------------
(* Further claims about the turn loop, checked under Spec.                 *)

\* What an event says, its identifier and timestamp aside.
Said(ev) == [role |-> ev.role, type |-> ev.type, content |-> ev.content,
             tool |-> ev.tool, toolResult |-> ev.toolResult]

ReturnedNormally(t) == turns[t].pc = "done" /\ turns[t].result.kind = "returned"

\* C22: the last event of a turn that ended because the round-trip bound was
\* reached differs, in what it says, from the last event of every turn that
\* ended with an answer of the model without tool calls.
C22_ExhaustionIsDistinguishable ==
    \A t \in TurnIds, u \in TurnIds :
        (/\ ReturnedNormally(t) /\ turns[t].step = maxToolSteps
         /\ ReturnedNormally(u) /\ turns[u].step < maxToolSteps) =>
            Said(Last(turns[t].mine)) # Said(Last(turns[u].mine))

\* C23: a turn that has returned normally has appended one user event of
\* kind message first, carrying userText, and one assistant event of kind
\* message last, whose content is the assistantText returned; every event it
\* appended between the two is of kind toolCall or toolResult.
C23_OneUserMessageInOneAssistantMessageOut ==
    \A t \in TurnIds :
        ReturnedNormally(t) =>
            LET mine == turns[t].mine
            IN  /\ Len(mine) >= 2
                /\ mine[1].role = "user"
                /\ mine[1].type = "message"
                /\ mine[1].content = turns[t].userText
                /\ Last(mine).role = "assistant"
                /\ Last(mine).type = "message"
                /\ Last(mine).content = turns[t].result.assistantText
                /\ \A i \in 2..(Len(mine) - 1) :
                       mine[i].type \in {"toolCall", "toolResult"}

\* A turn has returned the answer of the model after a round with tool
\* calls, and another has returned an answer given without any tool call.
C23_Witness ==
    \E t \in TurnIds, u \in TurnIds :
        /\ ReturnedNormally(t)
        /\ turns[t].step \in 1..(maxToolSteps - 1)
        /\ Len(turns[t].mine) >= 5
        /\ ReturnedNormally(u)
        /\ Len(turns[u].mine) = 2

\* The model answers turn t with descriptors: the event handed to appendEvent
\* is an assistant event of kind toolCall whose content is the text of the
\* response, and all descriptors of the response are still queued.
TextEventCreated(t) ==
    (turns[t].pc = "callOllama" /\ turns'[t].pc = "appendAssistantToolCall") =>
        \E r \in Responses(toolRounds) :
            /\ Len(r.toolCalls) > 0
            /\ turns'[t].queue = r.toolCalls
            /\ turns'[t].mine = turns[t].mine
            /\ Said(turns'[t].pending) =
                   [role |-> "assistant", type |-> "toolCall", content |-> r.content,
                    tool |-> NoTool, toolResult |-> NoToolResult]

\* The append of that event returns: it is the last event of the turn and of
\* the log, and only then is the first descriptor taken from the queue.
TextEventAppended(t) ==
    (turns[t].pc = "appendAssistantToolCall" /\ turns'[t].pc = "appendToolCall") =>
        /\ turns'[t].mine = Append(turns[t].mine, turns[t].pending)
        /\ Last(readEvents(files', turns[t].sessionId).value) = turns[t].pending
        /\ turns'[t].queue = Tail(turns[t].queue)

\* C27: when a response carries descriptors together with a text, the text
\* is kept: before any tool call of that round is logged or executed, one
\* assistant event of kind toolCall whose content is exactly that text is
\* appended (and so it is when the text is empty); the toolCall event of a
\* descriptor that opens a round directly follows such an event.
C27_TextOfToolResponseIsLogged ==
    /\ [][\A t \in TurnIds : TextEventCreated(t) /\ TextEventAppended(t)]_vars
    /\ [](\A t \in TurnIds :
             \A i \in DOMAIN turns[t].mine :
                 LET mine == turns[t].mine
                 IN  (mine[i].type = "toolCall" /\ mine[i].tool.present
                          /\ mine[i - 1].type # "toolResult") =>
                         IsRoundMarker(mine[i - 1]))

\* The text event of a response with a text and three descriptors is in the
\* log, followed by the toolCall event of the first descriptor.
C27_Witness ==
    \E t \in TurnIds :
        \E i \in DOMAIN turns[t].mine :
            /\ IsRoundMarker(turns[t].mine[i])
            /\ turns[t].mine[i].content = ThreeCalls.content
            /\ Len(ThreeCalls.content) > 0
            /\ i < Len(turns[t].mine)
            /\ turns[t].mine[i + 1].tool.present
            /\ LET log == readEvents(files, turns[t].sessionId).value
               IN  \E j \in DOMAIN log : log[j] = turns[t].mine[i]

---------------------------------------------------------------------------
(* A further claim about the store, checked under SpecStore.               *)

\* C24: for every conversation identifier under which nothing has been
\* appended, readEvents returns the empty sequence and throws nothing.
C24_NeverWrittenReadsEmpty ==
    \A id \in SessionIds :
        appendedUnder[id] = <<>> => readEvents(files, id) = Returned(<<>>)

---------------------------------------------------------------------------
(* A further claim about the executor, checked under SpecTool.             *)

\* C25: whatever numResults and timeoutMs a browserSearch call carries
\* (absent, below or above the range, or not a number), the result count
\* handed to the search is a number in 1..10 and the timeout handed to it a
\* number in 1000..60000.
C25_SearchBoundsAreClamped ==
    \A i \in DOMAIN tout.searches :
        LET opts == tout.searches[i]
        IN  /\ ~opts.numResults.nan
            /\ opts.numResults.n \in 1..10
            /\ ~opts.timeoutMs.nan
            /\ opts.timeoutMs.n \in 1000..60000

---------------------------------------------------------------------------
(* Further claims about normalizeToolCall, checked under SpecNorm.         *)

\* The arguments of the descriptor have an args field.
HasInnerArgs ==
    /\ isPlainObject(ndesc.function)
    /\ isPlainObject(Prop(ndesc.function, "arguments"))
    /\ "args" \in DOMAIN Prop(ndesc.function, "arguments").f

\* The descriptor's own function name as a canonical name: sanitized, and
\* 'unknown' when nothing is left of it.
OwnName ==
    LET tool == sanitizeToolName(FunctionField(ndesc, "name"))
    IN  IF Len(tool) > 0 THEN tool ELSE <<"unknown">>

\* C26: a descriptor is an indirection only when its arguments are an object
\* with both a string tool field and an args field; every other descriptor,
\* one whose arguments have a string tool field but no args field included,
\* normalizes to its own function name and to its arguments as they are.
C26_IndirectionNeedsToolAndArgs ==
    (ncall.done /\ ~(IsIndirection /\ HasInnerArgs)) =>
        /\ ncall.norm.tool = OwnName
        /\ ncall.norm.args = FunctionField(ndesc, "arguments")

---------------------------------------------------------------------------
(* A further claim about turns that may overlap, checked under SpecOverlap. *)

\* C28: in every log that can be read, the timestamps of the events are
\* non-decreasing in the order of the log, also when two turns run at once
\* on one conversation.
C28_TimestampsAreNonDecreasing ==
    \A id \in SessionIds :
        LET r == readEvents(files, id)
        IN  ~r.thrown =>
                \A i \in DOMAIN r.value, j \in DOMAIN r.value :
                    i < j => r.value[i].ts <= r.value[j].ts

\* The raw tool name of the descriptor: the inner tool field of an
\* indirection, the outer function name otherwise.
RawName == IF IsIndirection THEN InnerTool ELSE FunctionField(ndesc, "name")

\* runTool, handed the normalized call, does not reject it as not allowed.
ExecutedAsAllowListed ==
    LET outcome == runTool([tool |-> ncall.norm.tool, args |-> ncall.norm.args],
                           WorkspaceDir, TurnWorld)
    IN  outcome.thrown \/ outcome.value.ok \/ outcome.value.error # "Tool not allowed"

\* A token of a name that is made of characters of [a-zA-Z0-9._-] and is no
\* part of the junk prefix.
InClass(tok) == tok \notin {JunkPrefix, " ", "!"}

\* C30, as claimed: a descriptor whose raw tool name is not the exact name of
\* an allow-listed capability is never executed as one.
C30_OnlyExactNamesAreExecuted ==
    (ncall.done /\ ExecutedAsAllowListed) =>
        \E n \in ALLOWED_TOOLS : RawName = JStr(n)

\* C30, amended: a descriptor is executed as an allow-listed capability
\* exactly when its raw tool name is a string that, once the junk prefixes,
\* the whitespace and the characters outside [a-zA-Z0-9._-] are removed from
\* it, is the exact name of that capability; the capability executed is the
\* one so named.
C30_OnlySanitizedExactNamesAreExecuted ==
    ncall.done =>
        /\ ExecutedAsAllowListed <=>
               (RawName.t = "string" /\ SelectSeq(RawName.s, InClass) \in ALLOWED_TOOLS)
        /\ ExecutedAsAllowListed => ncall.norm.tool = SelectSeq(RawName.s, InClass)

\* A descriptor whose raw name is fs.readText behind the junk prefix was
\* normalized to a call that is executed as fs.readText.
C30_Witness ==
    /\ ncall.done
    /\ RawName = JStr(<<JunkPrefix, "fs.readText">>)
    /\ ncall.norm.tool = FsReadText
    /\ ExecutedAsAllowListed

---------------------------------------------------------------------------
(* Turns one after the other where an append may be cut short.             *)

\* Where the line of an append is cut: after the fields before the content,
\* or before the closing brace.
TornCuts(line) == {2, Len(line) - 1}

\* The process is killed (or the disk is full) while appendFile writes the
\* line of the event: a part of the line is in the file, without its line
\* feed, and the turn is aborted.
TornAppend(t) ==
    LET turn == turns[t]
        p == SessionFile[turn.sessionId]
        line == JSONstringify(turn.pending)
    IN  /\ turn.pc \in AppendPcs
        /\ faults > 0
        /\ faults' = faults - 1
        /\ \E k \in TornCuts(line) :
               files' = [files EXCEPT ![p] =
                            [exists |-> TRUE, txt |-> files[p].txt \o SubSeq(line, 1, k)]]
        /\ lastRead' = [lastRead EXCEPT ![p] = NotRead]
        /\ turns' = [turns EXCEPT ![t] = [turn EXCEPT !.pc = "aborted"]]
        /\ UNCHANGED <<appended, appendedUnder, clock, toolRounds, overlap, toolVars>>

NextTorn == Next \/ \E t \in TurnIds : TornAppend(t)

SpecTorn == Init /\ [][NextTorn]_vars

---------------------------------------------------------------------------
(* A claim about aborted turns, checked under SpecTorn.                    *)

\* C29: whatever an aborted turn left in the log (its user event alone, a
\* toolCall event without toolResult, a part of a line), no later turn on the
\* conversation fails to load the history: readEvents does not throw under
\* it.
C29_TruncatedTailIsTolerated ==
    \A t \in TurnIds :
        ~(turns[t].pc = "failed" /\ turns[t].result.error = "SyntaxError")


---------------------------------------------------------------------------
(* rememberSent on its own: any sequence of calls.                         *)

InitRemember ==
    /\ NoTurns
    /\ files = NoFiles
    /\ appended = [p \in FilePaths |-> <<>>]
    /\ appendedUnder = [id \in SessionIds |-> <<>>]
    /\ lastRead = [p \in FilePaths |-> NotRead]
    /\ NoExecuting
    /\ NoParsing
    /\ NoNormalizing
    /\ NoLocating
    /\ NoBridge

\* The ids SENT_IDS.add has been run with.
Recorded == {sentLog[i] : i \in 1..Len(sentLog)}

\* What rememberSent is called with: a value that is no string, the empty
\* string, an id never seen (the next serial number), the oldest and the
\* newest id it holds, and every id it has dropped.
RememberArgs ==
    {JUndefined, JNum(7), JStr(<<>>), JStr(MsgId(Cardinality(Recorded) + 1))}
        \cup (IF SENT_QUEUE = <<>> THEN {}
              ELSE {JStr(Head(SENT_QUEUE)), JStr(SENT_QUEUE[Len(SENT_QUEUE)])})
        \cup {JStr(s) : s \in Recorded \ SENT_IDS}

\* rememberSent(id)
Remember ==
    /\ Len(sentLog) < SENT_MAX + MaxOverflow
    /\ \E id \in RememberArgs :
        LET r == rememberSent(SENT_IDS, SENT_QUEUE, id)
            s == idText(id)
        IN  /\ SENT_IDS' = r.ids
            /\ SENT_QUEUE' = r.queue
            /\ sentLog' = IF s # <<>> /\ s \notin SENT_IDS
                          THEN Append(sentLog, s) ELSE sentLog
            /\ wa' = [wa EXCEPT !.arg = id]
    /\ UNCHANGED <<storeVars, turnVars, execVars, parseVars, normVars, located>>

SpecRemember == InitRemember /\ [][Remember]_vars

---------------------------------------------------------------------------
(* A claim about the remembered ids, checked under SpecRemember.           *)

\* The place in sentLog at which the id was recorded last.
RecordedAt(s) ==
    CHOOSE i \in 1..Len(sentLog) :
        /\ sentLog[i] = s
        /\ \A j \in (i + 1)..Len(sentLog) : sentLog[j] # s

\* C31: after any sequence of rememberSent calls SENT_IDS holds at most
\* SENT_MAX (300) ids, holds exactly the ids of SENT_QUEUE, no id is queued
\* twice, no empty id is stored and a call with a value that is no string or
\* with the empty string stores nothing; an id leaves the set only when the
\* capacity is exceeded, and the id that leaves is the one recorded earliest
\* of those held.
C31_SentIdsIsABoundedFifoSet ==
    /\ [](/\ Cardinality(SENT_IDS) <= SENT_MAX
          /\ SENT_IDS = {SENT_QUEUE[i] : i \in 1..Len(SENT_QUEUE)}
          /\ Cardinality(SENT_IDS) = Len(SENT_QUEUE)
          /\ <<>> \notin SENT_IDS)
    /\ [][/\ idText(wa'.arg) = <<>> =>
                /\ SENT_IDS' = SENT_IDS
                /\ SENT_QUEUE' = SENT_QUEUE
          /\ \A old \in SENT_IDS \ SENT_IDS' :
                /\ Cardinality(SENT_IDS) = SENT_MAX
                /\ Cardinality(SENT_IDS') = SENT_MAX
                /\ \A s \in SENT_IDS \ {old} : RecordedAt(old) < RecordedAt(s)
          /\ Cardinality(SENT_IDS) = SENT_MAX /\ SENT_IDS' # SENT_IDS =>
                SENT_IDS \ SENT_IDS' # {}]_vars

\* More than SENT_MAX ids were recorded: the set is full, the id recorded
\* first has left it, the id recorded second is now the oldest, and the
\* last call was made with a value that is no string.
C31_Witness ==
    /\ Len(sentLog) > SENT_MAX
    /\ Cardinality(SENT_IDS) = SENT_MAX
    /\ sentLog[1] \notin SENT_IDS
    /\ Head(SENT_QUEUE) = sentLog[2]
    /\ wa.arg = JUndefined


---------------------------------------------------------------------------
(* The bridge at work: messages arrive in messages.upsert events, one      *)
(* message an event; a message that passes the filters is answered by a    *)
(* turn and the answer is sent back with sock.sendMessage.  runTurn is     *)
(* taken by its outcome only: a text or a rejection.                       *)

DirectJid == TextOf(<<"1", "@s.whatsapp.net">>)
GroupJid == TextOf(<<"1", "@g.us">>)

CommandText == TextOf(<<"/ai", SPACE, "hi">>)
BareText == TextOf(<<"/ai", SPACE>>)
ChatterText == TextOf(<<"hi">>)

\* `Error: ${e?.message ?? String(e)}`
ErrorText == TextOf(<<"Error:", SPACE, "failed">>)

\* What runTurn answers: out.assistantText.
Replies == {TextOf(<<"ok">>), TextOf(<<"/ai", SPACE, "again">>)}

\* The messages of other senders: remoteJid, text.
Arrivals ==
    [remoteJid : {DirectJid, GroupJid, <<>>},
     text : {CommandText, BareText, ChatterText}]

\* The body of `for (const msg of msgs)` up to the call of runTurn: whether
\* no `continue` is taken.
reachesRunTurn(msg, ids) ==
    LET text == trim(msg.text)
    IN  /\ msg.remoteJid # <<>>
        /\ ~isGroupOrBroadcast(msg.remoteJid)
        /\ isDirectChat(msg.remoteJid)
        /\ ~(msg.id # <<>> /\ msg.id \in ids)
        /\ startsWith(text, WA_PREFIX)
        /\ trim(SubSeq(text, Len(WA_PREFIX) + 1, Len(text))) # <<>>

InitBridge == InitRemember

\* A message of another sender reaches the network.
Arrive ==
    /\ wa.received < MaxReceived
    /\ \E a \in Arrivals :
        wa' = [wa EXCEPT
                 !.net = @ \cup {[id |-> MsgId(wa.serial + 1),
                                  remoteJid |-> a.remoteJid,
                                  text |-> a.text, fromMe |-> FALSE]},
                 !.serial = @ + 1,
                 !.received = @ + 1]
    /\ UNCHANGED <<SENT_IDS, SENT_QUEUE, sentLog>>
    /\ UNCHANGED <<storeVars, turnVars, execVars, parseVars, normVars, located>>

\* sock.ev.on('messages.upsert', ...) with one message, up to
\* `await runTurn(...)`: the message is skipped, or handler h calls runTurn.
Upsert(h) ==
    /\ wa.handlers[h].pc = "idle"
    /\ \A g \in HandlerIds : g < h => wa.handlers[g].pc # "idle"
    /\ \E msg \in wa.net :
        IF reachesRunTurn(msg, SENT_IDS)
        THEN wa' = [wa EXCEPT
                      !.net = @ \ {msg},
                      !.handlers[h] = [pc |-> "turn",
                                       remoteJid |-> msg.remoteJid,
                                       sentId |-> <<>>],
                      !.started = @ \cup {msg.id}]
        ELSE wa' = [wa EXCEPT !.net = @ \ {msg}]
    /\ UNCHANGED <<SENT_IDS, SENT_QUEUE, sentLog>>
    /\ UNCHANGED <<storeVars, turnVars, execVars, parseVars, normVars, located>>

\* sock.sendMessage(remoteJid, { text }) is called by handler h: the
\* message gets its id and leaves; the network will hand it back to the
\* bridge in an upsert.
sendMessage(h, text, pc) ==
    [wa EXCEPT
       !.net = @ \cup {[id |-> MsgId(wa.serial + 1),
                        remoteJid |-> wa.handlers[h].remoteJid,
                        text |-> text, fromMe |-> TRUE]},
       !.serial = @ + 1,
       !.sent = @ \cup {MsgId(wa.serial + 1)},
       !.handlers[h].pc = pc,
       !.handlers[h].sentId = MsgId(wa.serial + 1)]

\* runTurn settles in handler h: its text is sent, or, in the catch, the
\* text of its error.
TurnSettles(h) ==
    /\ wa.handlers[h].pc = "turn"
    /\ Cardinality(wa.sent) < MaxSends
    /\ \/ \E text \in Replies : wa' = sendMessage(h, text, "sending")
       \/ wa' = sendMessage(h, ErrorText, "sendingError")
    /\ UNCHANGED <<SENT_IDS, SENT_QUEUE, sentLog>>
    /\ UNCHANGED <<storeVars, turnVars, execVars, parseVars, normVars, located>>

\* `const sent = await sock.sendMessage(...)` resumes in handler h with the
\* message or with undefined, and rememberSent(sent?.key?.id) runs.
SendReturns(h) ==
    /\ wa.handlers[h].pc \in {"sending", "sendingError"}
    /\ \E id \in {JStr(wa.handlers[h].sentId), JUndefined} :
        LET r == rememberSent(SENT_IDS, SENT_QUEUE, id)
            s == idText(id)
        IN  /\ SENT_IDS' = r.ids
            /\ SENT_QUEUE' = r.queue
            /\ sentLog' = IF s # <<>> /\ s \notin SENT_IDS
                          THEN Append(sentLog, s) ELSE sentLog
            /\ wa' = [wa EXCEPT !.arg = id, !.handlers[h] = IdleHandler]
    /\ UNCHANGED <<storeVars, turnVars, execVars, parseVars, normVars, located>>

\* `await sock.sendMessage(...)` rejects in handler h: in the try, the catch
\* sends the text of the error; in the catch, the handler ends.
SendRejects(h) ==
    /\ \/ /\ wa.handlers[h].pc = "sending"
          /\ Cardinality(wa.sent) < MaxSends
          /\ wa' = sendMessage(h, ErrorText, "sendingError")
       \/ /\ wa.handlers[h].pc = "sendingError"
          /\ wa' = [wa EXCEPT !.handlers[h] = IdleHandler]
    /\ UNCHANGED <<SENT_IDS, SENT_QUEUE, sentLog>>
    /\ UNCHANGED <<storeVars, turnVars, execVars, parseVars, normVars, located>>

NextBridge ==
    \/ Arrive
    \/ \E h \in HandlerIds :
        \/ Upsert(h)
        \/ TurnSettles(h)
        \/ SendReturns(h)
        \/ SendRejects(h)

SpecBridge == InitBridge /\ [][NextBridge]_vars

---------------------------------------------------------------------------
(* A claim about the bridge's own messages, checked under SpecBridge.      *)

\* C32: a message the bridge itself has sent with sendMessage (an answer or
\* the text of an error) never starts a turn when it comes back in a
\* messages.upsert event, whenever the event is delivered with respect to
\* the return of sendMessage and the call of rememberSent.
C32_OwnMessagesNeverStartATurn == wa.started \cap wa.sent = {}

=============================================================================
